---- MODULE Spec2Model ----
(***************************************************************************)
(* A model of the LC-3 virtual machine of twe4ked/lc3: the executor        *)
(* (cpu.rs), the instruction decoder (instruction.rs), the memory with its *)
(* memory-mapped registers (state/memory.rs), the register file            *)
(* (state/registers.rs) and the condition flags (state.rs); the run loops  *)
(* of process.rs and lib.rs with their own decoding and execution.         *)
(*                                                                         *)
(* Words are 16-bit unsigned integers (0..65535).  A panic of the Rust     *)
(* code (panic!, unimplemented!, an index out of bounds, a failed unwrap)  *)
(* is the field fault of the machine state: once it is not "none" the      *)
(* process is gone and no operation runs any more.                         *)
(***************************************************************************)
EXTENDS Integers, Sequences, FiniteSets, TLC

VARIABLES pc, registers, memory, condition, running, stdin, fault, io_log, last, steps,
          config, call, debugger, trace

vars ==
    <<pc, registers, memory, condition, running, stdin, fault, io_log, last, steps, config,
      call, debugger, trace>>

(***************************************************************************)
(* Bounds of the model.                                                    *)
(***************************************************************************)
\* number of instructions the harness executes in one behaviour
MaxSteps == 1
\* number of bytes the keyboard may hold unread
MaxStdin == 1
\* number of iterations a run loop makes in one behaviour
MaxRunSteps == 3

(***************************************************************************)
(* u16 arithmetic.                                                         *)
(***************************************************************************)
WordModulus == 65536

\* u16::wrapping_add
wrapping_add(a, b) == (a + b) % WordModulus

\* a >> n on u16
shr(a, n) == a \div (2 ^ n)

\* a << n on u16 (the bits shifted out are lost)
shl(a, n) == (a * (2 ^ n)) % WordModulus

RECURSIVE and_bits(_, _, _)
and_bits(a, b, n) ==
    IF n = 0 \/ a = 0 \/ b = 0 THEN 0
    ELSE ((a % 2) * (b % 2)) + 2 * and_bits(a \div 2, b \div 2, n - 1)

\* a & b on u16
bitand(a, b) == and_bits(a, b, 16)

\* a | b on u16
bitor(a, b) == a + b - bitand(a, b)

\* !a on u16
bitnot(a) == (WordModulus - 1) - a

\* SignExtend::sign_extend for u16
\* a sign extension that tests bit bit_count, one above the sign bit of the field
sign_extend_tests_next_bit(self, bit_count) ==
    IF bitand(shr(self, bit_count), 1) = 1
    THEN bitor(self, shl(65535, bit_count))
    ELSE self

sign_extend(self, bit_count) ==
    IF bitand(shr(self, bit_count - 1), 1) = 1
    THEN bitor(self, shl(65535, bit_count))
    ELSE self

(***************************************************************************)
(* Memory (state/memory.rs).  The array has u16::max_value() = 65535       *)
(* cells, indices 0..65534.  The model keeps the cells that differ from    *)
(* the initial 0 in a function whose domain is the set of cells written so *)
(* far; cell(m, a) is the content of the array at index a.                 *)
(***************************************************************************)
KBSR == 65024   \* 0xfe00
KBDR == 65026   \* 0xfe02
DSR == 65028    \* 0xfe04
DDR == 65030    \* 0xfe06
MCR == 65534    \* 0xfffe

\* length of the array: u16::max_value() as usize
MemoryLen == 65535

cell(m, a) == IF a \in DOMAIN m THEN m[a] ELSE 0

store(m, a, v) == [x \in (DOMAIN m) \cup {a} |-> IF x = a THEN v ELSE m[x]]

\* Memory::new
Memory_new == store(store(<<>>, DSR, shl(1, 15)), MCR, shl(1, 15))

\* check_key: select() on stdin with a zero timeout
check_key(s) == Len(s.stdin) > 0

\* a state that panicked with message msg
Panic(s, msg) == [s EXCEPT !.fault = msg]

\* memory[address as usize] with the bounds check of the array index
index(s, address) ==
    IF address < MemoryLen
    THEN [s |-> s, value |-> cell(s.memory, address)]
    ELSE [s |-> Panic(s, "index out of bounds"), value |-> 0]

\* get_char: read_exact of one byte from stdin; waits when there is none
get_char(s) ==
    IF Len(s.stdin) > 0
    THEN [s |-> [s EXCEPT !.stdin = Tail(s.stdin)], value |-> Head(s.stdin)]
    ELSE [s |-> [s EXCEPT !.fault = "blocked"], value |-> 0]

\* Memory::read: the state after the read and the value read
Memory_read(s0, address) ==
    LET s == [s0 EXCEPT !.io_log = Append(s0.io_log, <<"read", address>>)] IN
    IF KBSR = address THEN
        LET value == IF check_key(s) THEN shl(1, 15) ELSE 0 IN
        [s |-> [s EXCEPT !.memory = store(s.memory, KBSR, value)], value |-> value]
    ELSE IF KBDR = address THEN
        LET kbsr == cell(s.memory, KBSR) IN
        IF bitand(shr(kbsr, 15), 1) = 1 THEN get_char(s)
        ELSE [s |-> s, value |-> 0]
    ELSE IF DSR = address THEN
        [s |-> Panic(s, "not implemented: DSR"), value |-> 0]
    ELSE IF DDR = address THEN
        [s |-> Panic(s, "not implemented: DDR"), value |-> 0]
    ELSE IF MCR = address THEN
        [s |-> Panic(s, "not implemented: MCR"), value |-> 0]
    ELSE index(s, address)

\* Memory::write
Memory_write(s0, address, value) ==
    LET s == [s0 EXCEPT !.io_log = Append(s0.io_log, <<"write", address, value>>)] IN
    IF address < MemoryLen
    THEN [s EXCEPT !.memory = store(s.memory, address, value)]
    ELSE Panic(s, "index out of bounds")

(***************************************************************************)
(* Registers (state/registers.rs) and flags (state.rs).                    *)
(***************************************************************************)
R0 == 0
R7 == 7

\* Registers::new
Registers_new == [r \in 0 .. 7 |-> 0]

\* Registers::read
Registers_read(s, register) == s.registers[register]

\* Registers::write
Registers_write(s, register, value) == [s EXCEPT !.registers[register] = value]

\* update_flags that reads the register as unsigned: never N
update_flags_unsigned(s, r) ==
    IF s.registers[r] = 0 THEN [s EXCEPT !.condition = "Z"]
    ELSE [s EXCEPT !.condition = "P"]

\* State::update_flags
update_flags(s, r) ==
    IF s.registers[r] = 0 THEN [s EXCEPT !.condition = "Z"]
    ELSE IF shr(s.registers[r], 15) = 1 THEN [s EXCEPT !.condition = "N"]
    ELSE [s EXCEPT !.condition = "P"]

(***************************************************************************)
(* Instruction decoding (instruction.rs).  A decoded instruction is a      *)
(* record: tag is the variant of enum Instruction, r0, r1, r2 its register *)
(* operands in the order of the variant's fields that are registers, value *)
(* its immediate or offset operand, condition the n/z/p flags of BR and    *)
(* trap_vector the TrapVector of TRAP.  fault is the panic message of a    *)
(* decode that panics.                                                     *)
(***************************************************************************)
NoCondition == [n |-> FALSE, z |-> FALSE, p |-> FALSE]

Instruction(tag, r0, r1, r2, value) ==
    [tag |-> tag, r0 |-> r0, r1 |-> r1, r2 |-> r2, value |-> value,
     condition |-> NoCondition, trap_vector |-> "NONE", fault |-> "none"]

\* Register::from: the register index, or 8 where the code panics
BadRegister == 8

\* a Register::from whose match has no arm for 7
Register_from_without_r7(n) == IF n \in 0 .. 6 THEN n ELSE BadRegister

Register_from(n) == IF n \in 0 .. 7 THEN n ELSE BadRegister

\* trap_vector.rs, TrapVector::from_instruction: the vector, or "Err"
TrapVector_from_instruction(instruction) ==
    LET value == bitand(instruction, 255) IN
    CASE value = 32 -> "GETC"
      [] value = 33 -> "OUT"
      [] value = 34 -> "PUTS"
      [] value = 35 -> "IN"
      [] value = 36 -> "PUTSP"
      [] value = 37 -> "HALT"
      [] OTHER -> "Err"

\* TrapVector::decode as Instruction::decode calls it: it returns a TrapVector,
\* so a vector that from_instruction rejects cannot be returned
TrapVector_decode(instruction) ==
    LET tv == TrapVector_from_instruction(instruction)
        i == Instruction("TRAP", 0, 0, 0, 0) IN
    IF tv = "Err"
    THEN [i EXCEPT !.fault = "bad TRAP vector"]
    ELSE [i EXCEPT !.trap_vector = tv]

\* an arm of decode that called Register::from for the registers regs: the
\* call panics on a value that is no register
checked(i, regs) ==
    IF BadRegister \in regs THEN [i EXCEPT !.fault = "bad register"] ELSE i

\* an arm 0x01 that takes bit 4 for the immediate flag
decode_0x01_flag_bit_4(instruction) ==
    LET f9 == Register_from(bitand(shr(instruction, 9), 7))
        f6 == Register_from(bitand(shr(instruction, 6), 7))
        f0 == Register_from(bitand(instruction, 7))
        immediate_flag == bitand(shr(instruction, 4), 1) = 1
        immediate_value == sign_extend(bitand(instruction, 31), 5) IN
    IF immediate_flag
    THEN checked(Instruction("ADDIMM", f9, f6, 0, immediate_value), {f9, f6, f0})
    ELSE checked(Instruction("ADD", f9, f6, f0, 0), {f9, f6, f0})

\* Instruction::decode, arm 0x01: ADD or ADDIMM
decode_0x01(instruction) ==
    LET f9 == Register_from(bitand(shr(instruction, 9), 7))
        f6 == Register_from(bitand(shr(instruction, 6), 7))
        f0 == Register_from(bitand(instruction, 7))
        immediate_flag == bitand(shr(instruction, 5), 1) = 1
        immediate_value == sign_extend(bitand(instruction, 31), 5) IN
    IF immediate_flag
    THEN checked(Instruction("ADDIMM", f9, f6, 0, immediate_value), {f9, f6, f0})
    ELSE checked(Instruction("ADD", f9, f6, f0, 0), {f9, f6, f0})

\* Instruction::decode, arm 0x04: JSR or JSRR
decode_0x04(instruction) ==
    LET f6 == Register_from(bitand(shr(instruction, 6), 7))
        use_pc_offset == bitand(shr(instruction, 11), 1) = 1
        pc_offset == bitand(instruction, 2047) IN
    IF use_pc_offset
    THEN checked(Instruction("JSR", 0, 0, 0, pc_offset), {f6})
    ELSE checked(Instruction("JSRR", f6, 0, 0, 0), {f6})

\* Instruction::decode, arm 0x05: AND or ANDIMM
decode_0x05(instruction) ==
    LET f9 == Register_from(bitand(shr(instruction, 9), 7))
        f6 == Register_from(bitand(shr(instruction, 6), 7))
        f0 == Register_from(bitand(instruction, 7))
        immediate_flag == bitand(shr(instruction, 5), 1) = 1
        immediate_value == sign_extend(bitand(instruction, 31), 5) IN
    IF immediate_flag
    THEN checked(Instruction("ANDIMM", f9, f6, 0, immediate_value), {f9, f6, f0})
    ELSE checked(Instruction("AND", f9, f6, f0, 0), {f9, f6, f0})

\* Instruction::decode
decode(instruction) ==
    LET value == shr(instruction, 12)
        f9 == Register_from(bitand(shr(instruction, 9), 7))
        f6 == Register_from(bitand(shr(instruction, 6), 7))
    IN
    CASE value = 0 ->
            [Instruction("BR", 0, 0, 0, bitand(instruction, 511)) EXCEPT
                !.condition = [n |-> bitand(shr(instruction, 11), 1) = 1,
                               z |-> bitand(shr(instruction, 10), 1) = 1,
                               p |-> bitand(shr(instruction, 9), 1) = 1]]
      [] value = 1 -> decode_0x01(instruction)
      [] value = 2 -> checked(Instruction("LD", f9, 0, 0, bitand(instruction, 511)), {f9})
      [] value = 3 -> checked(Instruction("ST", f9, 0, 0, bitand(instruction, 511)), {f9})
      [] value = 4 -> decode_0x04(instruction)
      [] value = 5 -> decode_0x05(instruction)
      [] value = 6 -> checked(Instruction("LDR", f9, f6, 0, bitand(instruction, 63)), {f9, f6})
      [] value = 7 -> checked(Instruction("STR", f9, f6, 0, bitand(instruction, 63)), {f9, f6})
      [] value = 8 -> Instruction("UNUSED", 0, 0, 0, 0)
      [] value = 9 -> checked(Instruction("NOT", f9, f6, 0, 0), {f9, f6})
      [] value = 10 ->
            checked(Instruction("LDI", f9, 0, 0,
                                sign_extend(bitand(instruction, 511), 9)), {f9})
      [] value = 11 -> checked(Instruction("STI", f9, 0, 0, bitand(instruction, 511)), {f9})
      [] value = 12 -> checked(Instruction("JMP", f6, 0, 0, 0), {f6})
      [] value = 13 -> Instruction("RESERVED", 0, 0, 0, 0)
      [] value = 14 -> checked(Instruction("LEA", f9, 0, 0, bitand(instruction, 511)), {f9})
      [] value = 15 -> TrapVector_decode(instruction)
      [] OTHER -> [Instruction("NONE", 0, 0, 0, 0) EXCEPT !.fault = "bad instruction"]

(***************************************************************************)
(* The executor (cpu.rs).  A machine state s is a record of the fields of  *)
(* State, the unread bytes of stdin, the fault, and io_log: the calls of   *)
(* Memory::read, Memory::write and print! made by the current step.  Each  *)
(* arm of the match in execute is an operator on the state whose pc has    *)
(* already been incremented.                                               *)
(***************************************************************************)
\* the step has neither panicked nor is waiting for input
Alive(s) == s.fault = "none"

\* print!("{}", char::from(value as u8))
print(s, value) == [s EXCEPT !.io_log = Append(s.io_log, <<"print", value % 256>>)]

\* the increment without the wrap: the PC stays at 0xFFFF
increment_pc_saturating(s) == [s EXCEPT !.pc = IF s.pc = 65535 THEN 65535 ELSE s.pc + 1]

\* state.pc = state.pc.wrapping_add(1)
increment_pc(s) == [s EXCEPT !.pc = wrapping_add(s.pc, 1)]

\* BR with no flag read as the unconditional branch of the assembler
execute_BR_unconditional(s, cond, pc_offset) ==
    IF \/ (cond.n /\ s.condition = "N")
       \/ (cond.z /\ s.condition = "Z")
       \/ (cond.p /\ s.condition = "P")
       \/ ~(cond.n \/ cond.z \/ cond.p)
    THEN [s EXCEPT !.pc = wrapping_add(s.pc, sign_extend(pc_offset, 9))]
    ELSE s

\* Instruction::BR(condition, pc_offset)
execute_BR(s, cond, pc_offset) ==
    IF \/ (cond.n /\ s.condition = "N")
       \/ (cond.z /\ s.condition = "Z")
       \/ (cond.p /\ s.condition = "P")
    THEN [s EXCEPT !.pc = wrapping_add(s.pc, sign_extend(pc_offset, 9))]
    ELSE s

\* ADD with the checked + of a debug build in place of wrapping_add
execute_ADD_checked(s, r0, r1, r2) ==
    LET sum == Registers_read(s, r1) + Registers_read(s, r2) IN
    IF sum >= WordModulus THEN Panic(s, "attempt to add with overflow")
    ELSE update_flags(Registers_write(s, r0, sum), r0)

\* Instruction::ADD(r0, r1, r2)
execute_ADD(s, r0, r1, r2) ==
    LET value == wrapping_add(Registers_read(s, r1), Registers_read(s, r2)) IN
    update_flags(Registers_write(s, r0, value), r0)

\* an ADDIMM whose second extension takes the sign from bit 3
execute_ADDIMM_extends_four_bits(s, r0, r1, immediate_value) ==
    LET value == wrapping_add(Registers_read(s, r1), sign_extend(immediate_value, 4)) IN
    update_flags(Registers_write(s, r0, value), r0)

\* Instruction::ADDIMM(r0, r1, immediate_value)
execute_ADDIMM(s, r0, r1, immediate_value) ==
    LET value == wrapping_add(Registers_read(s, r1), sign_extend(immediate_value, 5)) IN
    update_flags(Registers_write(s, r0, value), r0)

\* LD with the offset measured from the address of the instruction itself
execute_LD_from_own_address(s, r0, pc_offset) ==
    LET address == wrapping_add(wrapping_add(s.pc, 65535), sign_extend(pc_offset, 9))
        rd == Memory_read(s, address) IN
    IF ~Alive(rd.s) THEN rd.s
    ELSE update_flags(Registers_write(rd.s, r0, rd.value), r0)

\* Instruction::LD(r0, pc_offset)
execute_LD(s, r0, pc_offset) ==
    LET address == wrapping_add(s.pc, sign_extend(pc_offset, 9))
        rd == Memory_read(s, address) IN
    IF ~Alive(rd.s) THEN rd.s
    ELSE update_flags(Registers_write(rd.s, r0, rd.value), r0)

\* Instruction::ST(r0, pc_offset)
execute_ST(s, r0, pc_offset) ==
    LET address == wrapping_add(s.pc, sign_extend(pc_offset, 9)) IN
    Memory_write(s, address, Registers_read(s, r0))

\* JSR with its offset masked and extended as a 9-bit field
execute_JSR_nine_bits(s, pc_offset) ==
    LET temp == s.pc
        s1 == [s EXCEPT !.pc = wrapping_add(s.pc, sign_extend(bitand(pc_offset, 511), 9))] IN
    Registers_write(s1, R7, temp)

\* Instruction::JSR(pc_offset)
execute_JSR(s, pc_offset) ==
    LET temp == s.pc
        s1 == [s EXCEPT !.pc = wrapping_add(s.pc, sign_extend(pc_offset, 11))] IN
    Registers_write(s1, R7, temp)

\* JSRR that writes the link into R7 before it reads the base register
execute_JSRR_link_first(s, r0) ==
    LET s1 == Registers_write(s, R7, s.pc) IN
    [s1 EXCEPT !.pc = Registers_read(s1, r0)]

\* Instruction::JSRR(r0)
execute_JSRR(s, r0) ==
    LET temp == s.pc
        s1 == [s EXCEPT !.pc = Registers_read(s, r0)] IN
    Registers_write(s1, R7, temp)

\* Instruction::AND(r0, r1, r2)
execute_AND(s, r0, r1, r2) ==
    LET value == bitand(Registers_read(s, r1), Registers_read(s, r2)) IN
    Registers_write(s, r0, value)

\* Instruction::ANDIMM(immediate_value, r0, r1)
execute_ANDIMM(s, immediate_value, r0, r1) ==
    LET value == bitand(Registers_read(s, r1), sign_extend(immediate_value, 5)) IN
    Registers_write(s, r0, value)

\* Instruction::LDR(r0, r1, offset)
execute_LDR(s, r0, r1, offset) ==
    LET address == wrapping_add(Registers_read(s, r1), sign_extend(offset, 6))
        rd == Memory_read(s, address) IN
    IF ~Alive(rd.s) THEN rd.s
    ELSE update_flags(Registers_write(rd.s, r0, rd.value), r0)

\* Instruction::STR(sr, base_r, offset)
execute_STR(s, sr, base_r, offset) ==
    LET address == wrapping_add(Registers_read(s, base_r), sign_extend(offset, 6))
        value == Registers_read(s, sr) IN
    Memory_write(s, address, value)

\* an UNUSED arm that does nothing
execute_UNUSED_ignored(s) == s

\* Instruction::UNUSED
execute_UNUSED(s) == Panic(s, "unused")

\* Instruction::NOT(r0, r1)
execute_NOT(s, r0, r1) ==
    update_flags(Registers_write(s, r0, bitnot(Registers_read(s, r1))), r0)

\* an LDI that stops at the first read, as LD does
execute_LDI_single_read(s, dr, pc_offset) ==
    LET rd == Memory_read(s, wrapping_add(s.pc, sign_extend(pc_offset, 9))) IN
    IF ~Alive(rd.s) THEN rd.s
    ELSE update_flags(Registers_write(rd.s, dr, rd.value), dr)

\* Instruction::LDI(dr, pc_offset)
execute_LDI(s, dr, pc_offset) ==
    LET rd1 == Memory_read(s, wrapping_add(s.pc, sign_extend(pc_offset, 9)))
        address == rd1.value
        rd2 == Memory_read(rd1.s, address) IN
    IF ~Alive(rd1.s) THEN rd1.s
    ELSE IF ~Alive(rd2.s) THEN rd2.s
    ELSE update_flags(Registers_write(rd2.s, dr, rd2.value), dr)

\* an STI that writes the pointer cell itself, as ST does
execute_STI_single_indirect(s, r0, pc_offset) ==
    Memory_write(s, wrapping_add(s.pc, sign_extend(pc_offset, 9)), Registers_read(s, r0))

\* Instruction::STI(r0, pc_offset)
execute_STI(s, r0, pc_offset) ==
    LET address0 == wrapping_add(s.pc, sign_extend(pc_offset, 9))
        rd == Memory_read(s, address0)
        address == rd.value IN
    IF ~Alive(rd.s) THEN rd.s
    ELSE Memory_write(rd.s, address, Registers_read(rd.s, r0))

\* Instruction::JMP(r0)
execute_JMP(s, r0) == [s EXCEPT !.pc = Registers_read(s, r0)]

\* Instruction::RESERVED
execute_RESERVED(s) == Panic(s, "reserved")

\* Instruction::LEA(r0, pc_offset)
execute_LEA(s, r0, pc_offset) ==
    Registers_write(s, r0, wrapping_add(s.pc, sign_extend(pc_offset, 9)))

\* GETC that sets the flags from the byte it read
trap_GETC_flags(s) ==
    LET rd == get_char(s) IN
    IF ~Alive(rd.s) THEN rd.s ELSE update_flags(Registers_write(rd.s, R0, rd.value), R0)

\* TrapVector::GETC: read_exact of one byte from stdin into R0
trap_GETC(s) ==
    LET rd == get_char(s) IN
    IF ~Alive(rd.s) THEN rd.s ELSE Registers_write(rd.s, R0, rd.value)

\* TrapVector::OUT
trap_OUT(s) == print(s, Registers_read(s, R0))

\* i += 1 on u16: a build with overflow checks panics at 65535, a build
\* without them wraps to 0
RECURSIVE puts_loop(_, _)
puts_loop(s, i) ==
    LET rd1 == Memory_read(s, i)
        rd2 == Memory_read(rd1.s, i) IN
    IF ~Alive(rd1.s) THEN rd1.s
    ELSE IF rd1.value = 0 THEN rd1.s
    ELSE IF ~Alive(rd2.s) THEN rd2.s
    ELSE IF i + 1 >= WordModulus
         THEN IF s.overflow_checks
              THEN Panic(print(rd2.s, rd2.value), "attempt to add with overflow")
              ELSE puts_loop(print(rd2.s, rd2.value), 0)
    ELSE puts_loop(print(rd2.s, rd2.value), i + 1)

\* TrapVector::PUTS
trap_PUTS(s) == puts_loop(s, Registers_read(s, R0))

\* TrapVector::IN
trap_IN(s) == Panic(s, "not implemented")

\* TrapVector::PUTSP
trap_PUTSP(s) == Panic(s, "not implemented")

\* TrapVector::HALT
trap_HALT(s) == [s EXCEPT !.running = FALSE]

\* a TRAP that saves the incremented PC in R7 before it serves the vector
execute_TRAP_links(s, trap_vector) ==
    LET linked == Registers_write(s, R7, s.pc) IN
    CASE trap_vector = "GETC" -> trap_GETC(linked)
      [] trap_vector = "OUT" -> trap_OUT(linked)
      [] trap_vector = "PUTS" -> trap_PUTS(linked)
      [] trap_vector = "IN" -> trap_IN(linked)
      [] trap_vector = "PUTSP" -> trap_PUTSP(linked)
      [] trap_vector = "HALT" -> trap_HALT(linked)

\* Instruction::TRAP(trap_vector)
execute_TRAP(s, trap_vector) ==
    CASE trap_vector = "GETC" -> trap_GETC(s)
      [] trap_vector = "OUT" -> trap_OUT(s)
      [] trap_vector = "PUTS" -> trap_PUTS(s)
      [] trap_vector = "IN" -> trap_IN(s)
      [] trap_vector = "PUTSP" -> trap_PUTSP(s)
      [] trap_vector = "HALT" -> trap_HALT(s)

\* execute(state, instruction)
execute(state, instruction) ==
    LET s == increment_pc(state)
        i == instruction IN
    CASE i.tag = "BR" -> execute_BR(s, i.condition, i.value)
      [] i.tag = "ADD" -> execute_ADD(s, i.r0, i.r1, i.r2)
      [] i.tag = "ADDIMM" -> execute_ADDIMM(s, i.r0, i.r1, i.value)
      [] i.tag = "LD" -> execute_LD(s, i.r0, i.value)
      [] i.tag = "ST" -> execute_ST(s, i.r0, i.value)
      [] i.tag = "JSR" -> execute_JSR(s, i.value)
      [] i.tag = "JSRR" -> execute_JSRR(s, i.r0)
      [] i.tag = "AND" -> execute_AND(s, i.r0, i.r1, i.r2)
      [] i.tag = "ANDIMM" -> execute_ANDIMM(s, i.value, i.r0, i.r1)
      [] i.tag = "LDR" -> execute_LDR(s, i.r0, i.r1, i.value)
      [] i.tag = "STR" -> execute_STR(s, i.r0, i.r1, i.value)
      [] i.tag = "UNUSED" -> execute_UNUSED(s)
      [] i.tag = "NOT" -> execute_NOT(s, i.r0, i.r1)
      [] i.tag = "LDI" -> execute_LDI(s, i.r0, i.value)
      [] i.tag = "STI" -> execute_STI(s, i.r0, i.value)
      [] i.tag = "JMP" -> execute_JMP(s, i.r0)
      [] i.tag = "RESERVED" -> execute_RESERVED(s)
      [] i.tag = "LEA" -> execute_LEA(s, i.r0, i.value)
      [] i.tag = "TRAP" -> execute_TRAP(s, i.trap_vector)

(***************************************************************************)
(* The plain run loop (process.rs) on the State of state.rs: memory and    *)
(* registers are bare arrays, instructions are decoded field by field in   *)
(* the arms of process.                                                    *)
(***************************************************************************)
\* State::new: the memory array is all zero
State_new_memory == <<>>

\* State::read_memory
read_memory(s0, address) ==
    LET logged == [s0 EXCEPT !.io_log = Append(s0.io_log, <<"read", address>>)]
        s == IF address = KBSR
             THEN IF check_key(logged)
                  THEN LET rd == get_char(logged) IN
                       [rd.s EXCEPT !.memory =
                           store(store(logged.memory, KBSR, shl(1, 15)), KBDR, rd.value)]
                  ELSE [logged EXCEPT !.memory = store(logged.memory, KBSR, 0)]
             ELSE logged IN
    IF address < MemoryLen
    THEN [s |-> s, value |-> cell(s.memory, address)]
    ELSE [s |-> s, value |-> 0]

\* state.memory[address as usize] = value, with the bounds check of the index
index_assign(s, address, value) ==
    IF address < MemoryLen
    THEN [s EXCEPT !.memory = store(s.memory, address, value)]
    ELSE Panic(s, "index out of bounds")

\* Opcode::from_instruction: the variant process matches on
Opcode_from_instruction(instruction) ==
    LET value == shr(instruction, 12) IN
    CASE value = 0 -> "BR"
      [] value = 1 -> "ADD"
      [] value = 2 -> "LD"
      [] value = 3 -> "ST"
      [] value = 4 -> "JSR"
      [] value = 5 -> "AND"
      [] value = 6 -> "LDR"
      [] value = 7 -> "STR"
      [] value = 8 -> "UNUSED"
      [] value = 9 -> "NOT"
      [] value = 10 -> "LDI"
      [] value = 11 -> "STI"
      [] value = 12 -> "JMP"
      [] value = 13 -> "RESERVED"
      [] value = 14 -> "LEA"
      [] value = 15 -> "TRAP"

\* process, Opcode::BR
process_BR(s, instruction) ==
    LET n == bitand(shr(instruction, 11), 1)
        z == bitand(shr(instruction, 10), 1)
        p == bitand(shr(instruction, 9), 1)
        pc_offset == bitand(instruction, 511) IN
    IF \/ (n = 1 /\ s.condition = "N")
       \/ (z = 1 /\ s.condition = "Z")
       \/ (p = 1 /\ s.condition = "P")
    THEN [s EXCEPT !.pc = wrapping_add(s.pc, sign_extend(pc_offset, 9))]
    ELSE s

\* process, Opcode::ADD
process_ADD(s, instruction) ==
    LET r0 == bitand(shr(instruction, 9), 7)
        r1 == bitand(shr(instruction, 6), 7)
        immediate_flag == bitand(shr(instruction, 5), 1) = 1
        immediate_value == sign_extend(bitand(instruction, 31), 5)
        r2 == bitand(instruction, 7)
        value == IF immediate_flag
                 THEN wrapping_add(s.registers[r1], immediate_value)
                 ELSE wrapping_add(s.registers[r1], s.registers[r2]) IN
    update_flags([s EXCEPT !.registers[r0] = value], r0)

\* process, Opcode::LD: the cell is taken from the array, not by read_memory
process_LD(s, instruction) ==
    LET r0 == bitand(shr(instruction, 9), 7)
        pc_offset == bitand(instruction, 511)
        address == wrapping_add(s.pc, sign_extend(pc_offset, 9))
        rd == index(s, address) IN
    IF ~Alive(rd.s) THEN rd.s
    ELSE update_flags([rd.s EXCEPT !.registers[r0] = rd.value], r0)

\* process, Opcode::ST
process_ST(s, instruction) ==
    LET r0 == bitand(shr(instruction, 9), 7)
        pc_offset == bitand(instruction, 511)
        address == wrapping_add(s.pc, sign_extend(pc_offset, 9)) IN
    index_assign(s, address, s.registers[r0])

\* process, Opcode::JSR
process_JSR(s, instruction) ==
    LET temp == s.pc
        use_pc_offset == bitand(shr(instruction, 11), 1)
        pc_offset == bitand(instruction, 2047)
        r0 == bitand(shr(instruction, 6), 7)
        target == IF use_pc_offset = 1
                  THEN wrapping_add(s.pc, sign_extend(pc_offset, 11))
                  ELSE s.registers[r0] IN
    [s EXCEPT !.pc = target, !.registers[7] = temp]

\* process, Opcode::AND
process_AND(s, instruction) ==
    LET immediate_flag == bitand(shr(instruction, 5), 1) = 1
        immediate_value == sign_extend(bitand(instruction, 31), 5)
        r0 == bitand(shr(instruction, 9), 7)
        r1 == bitand(shr(instruction, 6), 7)
        r2 == bitand(instruction, 7)
        value == IF immediate_flag
                 THEN bitand(s.registers[r1], immediate_value)
                 ELSE bitand(s.registers[r1], s.registers[r2]) IN
    [s EXCEPT !.registers[r0] = value]

\* process, Opcode::LDR
process_LDR(s, instruction) ==
    LET r0 == bitand(shr(instruction, 9), 7)
        r1 == bitand(shr(instruction, 6), 7)
        offset == bitand(instruction, 63)
        address == wrapping_add(s.registers[r1], sign_extend(offset, 6))
        rd == read_memory(s, address) IN
    IF ~Alive(rd.s) THEN rd.s
    ELSE update_flags([rd.s EXCEPT !.registers[r0] = rd.value], r0)

\* process, Opcode::STR
process_STR(s, instruction) ==
    LET sr == bitand(shr(instruction, 9), 7)
        base_r == bitand(shr(instruction, 6), 7)
        offset == bitand(instruction, 63)
        address == wrapping_add(s.registers[base_r], sign_extend(offset, 6))
        value == s.registers[sr] IN
    index_assign(s, address, value)

\* process, Opcode::UNUSED: unimplemented!()
process_UNUSED(s) == Panic(s, "not implemented")

\* process, Opcode::NOT
process_NOT(s, instruction) ==
    LET r0 == bitand(shr(instruction, 9), 7)
        r1 == bitand(shr(instruction, 6), 7) IN
    update_flags([s EXCEPT !.registers[r0] = bitnot(s.registers[r1])], r0)

\* process, Opcode::LDI
process_LDI(s, instruction) ==
    LET dr == bitand(shr(instruction, 9), 7)
        pc_offset == sign_extend(bitand(instruction, 511), 9)
        rd1 == read_memory(s, wrapping_add(s.pc, pc_offset))
        address == rd1.value
        rd2 == read_memory(rd1.s, address) IN
    IF ~Alive(rd1.s) THEN rd1.s
    ELSE IF ~Alive(rd2.s) THEN rd2.s
    ELSE update_flags([rd2.s EXCEPT !.registers[dr] = rd2.value], dr)

\* process, Opcode::STI
process_STI(s, instruction) ==
    LET r0 == bitand(shr(instruction, 9), 7)
        pc_offset == bitand(instruction, 511)
        address == wrapping_add(s.pc, sign_extend(pc_offset, 9))
        rd == read_memory(s, address) IN
    IF ~Alive(rd.s) THEN rd.s
    ELSE index_assign(rd.s, rd.value, rd.s.registers[r0])

\* process, Opcode::JMP
process_JMP(s, instruction) ==
    LET r0 == bitand(shr(instruction, 6), 7) IN
    [s EXCEPT !.pc = s.registers[r0]]

\* process, Opcode::RESERVED: unimplemented!()
process_RESERVED(s) == Panic(s, "not implemented")

\* process, Opcode::LEA
process_LEA(s, instruction) ==
    LET r0 == bitand(shr(instruction, 9), 7)
        pc_offset == bitand(instruction, 511) IN
    [s EXCEPT !.registers[r0] = wrapping_add(s.pc, sign_extend(pc_offset, 9))]

\* the while loop of PUTS in process; i += 1 cannot overflow, for
\* read_memory(0xffff) is 0 and ends the loop
RECURSIVE process_puts_loop(_, _)
process_puts_loop(s, i) ==
    LET rd1 == read_memory(s, i)
        rd2 == read_memory(rd1.s, i) IN
    IF ~Alive(rd1.s) THEN rd1.s
    ELSE IF rd1.value = 0 THEN rd1.s
    ELSE IF ~Alive(rd2.s) THEN rd2.s
    ELSE process_puts_loop(print(rd2.s, rd2.value), i + 1)

\* process, Opcode::TRAP: if let Ok(trap_vector) = ... has no else, the Err
\* of from_instruction is dropped
process_TRAP(s, instruction) ==
    LET trap_vector == TrapVector_from_instruction(instruction) IN
    CASE trap_vector = "GETC" ->
            LET rd == get_char(s) IN
            IF ~Alive(rd.s) THEN rd.s ELSE [rd.s EXCEPT !.registers[0] = rd.value]
      [] trap_vector = "OUT" -> print(s, s.registers[0])
      [] trap_vector = "PUTS" -> process_puts_loop(s, s.registers[0])
      [] trap_vector = "IN" -> Panic(s, "not implemented")
      [] trap_vector = "PUTSP" -> Panic(s, "not implemented")
      [] trap_vector = "HALT" -> [s EXCEPT !.running = FALSE]
      [] OTHER -> s

\* the match of process on the opcode
process_match(s, opcode, instruction) ==
    CASE opcode = "BR" -> process_BR(s, instruction)
      [] opcode = "ADD" -> process_ADD(s, instruction)
      [] opcode = "LD" -> process_LD(s, instruction)
      [] opcode = "ST" -> process_ST(s, instruction)
      [] opcode = "JSR" -> process_JSR(s, instruction)
      [] opcode = "AND" -> process_AND(s, instruction)
      [] opcode = "LDR" -> process_LDR(s, instruction)
      [] opcode = "STR" -> process_STR(s, instruction)
      [] opcode = "UNUSED" -> process_UNUSED(s)
      [] opcode = "NOT" -> process_NOT(s, instruction)
      [] opcode = "LDI" -> process_LDI(s, instruction)
      [] opcode = "STI" -> process_STI(s, instruction)
      [] opcode = "JMP" -> process_JMP(s, instruction)
      [] opcode = "RESERVED" -> process_RESERVED(s)
      [] opcode = "LEA" -> process_LEA(s, instruction)
      [] opcode = "TRAP" -> process_TRAP(s, instruction)

\* a process that sets running again before it executes
process_resumes(state) ==
    LET rd == read_memory(state, state.pc)
        instruction == rd.value
        opcode == Opcode_from_instruction(instruction)
        s == [rd.s EXCEPT !.pc = wrapping_add(rd.s.pc, 1), !.running = TRUE] IN
    [s |-> process_match(s, opcode, instruction), instruction |-> instruction,
     opcode |-> opcode]

\* process(state): the state after the step and the word it fetched
process(state) ==
    LET rd == read_memory(state, state.pc)
        instruction == rd.value
        opcode == Opcode_from_instruction(instruction)
        s == [rd.s EXCEPT !.pc = wrapping_add(rd.s.pc, 1)] IN
    [s |-> process_match(s, opcode, instruction), instruction |-> instruction,
     opcode |-> opcode]

(***************************************************************************)
(* The first run loop (lib.rs): process(state, debug) prompts for a        *)
(* debugger line before the instruction when debug is set, and decodes and *)
(* executes the instruction in the arms of its own match.                  *)
(***************************************************************************)
\* lib.rs, read_memory(&memory, address): a plain read
lib_read_memory(m, address) == IF address < MemoryLen THEN cell(m, address) ELSE 0

\* lib.rs, state.registers[r as usize] with the bounds check of the index
lib_register(s, r) ==
    IF r \in 0 .. 7
    THEN [s |-> s, value |-> s.registers[r]]
    ELSE [s |-> Panic(s, "index out of bounds"), value |-> 0]

\* lib.rs process, Opcode::BR
lib_process_BR(s, instruction) ==
    LET n == bitand(shr(instruction, 11), 1)
        z == bitand(shr(instruction, 10), 1)
        p == bitand(shr(instruction, 9), 1)
        pc_offset == bitand(instruction, 511) IN
    IF \/ (n = 1 /\ s.condition = "N")
       \/ (z = 1 /\ s.condition = "Z")
       \/ (p = 1 /\ s.condition = "P")
    THEN [s EXCEPT !.pc = wrapping_add(s.pc, sign_extend(pc_offset, 9))]
    ELSE s

\* lib.rs process, Opcode::ADD
lib_process_ADD(s, instruction) ==
    LET r0 == bitand(shr(instruction, 9), 7)
        r1 == bitand(shr(instruction, 6), 7)
        immediate_flag == bitand(shr(instruction, 5), 1) = 1
        immediate_value == sign_extend(bitand(instruction, 31), 5)
        r2 == bitand(instruction, 7)
        value == IF immediate_flag
                 THEN wrapping_add(s.registers[r1], immediate_value)
                 ELSE wrapping_add(s.registers[r1], s.registers[r2]) IN
    update_flags([s EXCEPT !.registers[r0] = value], r0)

\* lib.rs process, Opcode::LD
lib_process_LD(s, instruction) ==
    LET r0 == bitand(shr(instruction, 9), 7)
        pc_offset == bitand(instruction, 511)
        address == wrapping_add(s.pc, sign_extend(pc_offset, 9))
        rd == index(s, address) IN
    IF ~Alive(rd.s) THEN rd.s
    ELSE update_flags([rd.s EXCEPT !.registers[r0] = rd.value], r0)

\* lib.rs process, Opcode::ST
lib_process_ST(s, instruction) ==
    LET r0 == bitand(shr(instruction, 9), 7)
        pc_offset == bitand(instruction, 511)
        address == wrapping_add(s.pc, sign_extend(pc_offset, 9)) IN
    index_assign(s, address, s.registers[r0])

\* lib.rs process, Opcode::JSR: the offset is masked to 9 bits
lib_process_JSR(s, instruction) ==
    LET temp == s.pc
        use_pc_offset == bitand(shr(instruction, 11), 1)
        pc_offset == bitand(instruction, 511)
        r == bitand(shr(instruction, 6), 7)
        target == IF use_pc_offset = 1
                  THEN wrapping_add(s.pc, sign_extend(pc_offset, 9))
                  ELSE s.registers[r] IN
    [s EXCEPT !.pc = target, !.registers[7] = temp]

\* lib.rs process, Opcode::AND
lib_process_AND(s, instruction) ==
    LET immediate_flag == bitand(shr(instruction, 5), 1) = 1
        immediate_value == sign_extend(bitand(instruction, 31), 5)
        r0 == bitand(shr(instruction, 9), 7)
        r1 == bitand(shr(instruction, 6), 7)
        r2 == bitand(instruction, 7)
        value == IF immediate_flag
                 THEN bitand(s.registers[r1], immediate_value)
                 ELSE bitand(s.registers[r1], s.registers[r2]) IN
    [s EXCEPT !.registers[r0] = value]

\* lib.rs process, Opcode::LDR
lib_process_LDR(s, instruction) ==
    LET r0 == bitand(shr(instruction, 9), 7)
        r1 == bitand(shr(instruction, 6), 7)
        offset == bitand(instruction, 63)
        address == wrapping_add(s.registers[r1], sign_extend(offset, 6))
        value == lib_read_memory(s.memory, address) IN
    update_flags([s EXCEPT !.registers[r0] = value], r0)

\* lib.rs process, Opcode::STR: the register of bits 11..9 gives the
\* address, the register of bits 8..6 plus the offset is the value stored
lib_process_STR(s, instruction) ==
    LET r0 == bitand(shr(instruction, 9), 7)
        r1 == bitand(shr(instruction, 6), 7)
        offset == bitand(instruction, 63)
        address == s.registers[r0]
        value == wrapping_add(s.registers[r1], sign_extend(offset, 6)) IN
    index_assign(s, address, value)

\* lib.rs process, Opcode::UNUSED
lib_process_UNUSED(s) == Panic(s, "unused")

\* lib.rs process, Opcode::NOT
lib_process_NOT(s, instruction) ==
    LET r0 == bitand(shr(instruction, 9), 7)
        r1 == bitand(shr(instruction, 6), 7) IN
    update_flags([s EXCEPT !.registers[r0] = bitnot(s.registers[r1])], r0)

\* lib.rs process, Opcode::LDI: one read
lib_process_LDI(s, instruction) ==
    LET r0 == bitand(shr(instruction, 9), 7)
        pc_offset == sign_extend(bitand(instruction, 511), 9)
        address == wrapping_add(s.pc, pc_offset)
        value == lib_read_memory(s.memory, address) IN
    update_flags([s EXCEPT !.registers[r0] = value], r0)

\* lib.rs process, Opcode::STI
lib_process_STI(s, instruction) ==
    LET r == bitand(shr(instruction, 9), 7)
        pc_offset == bitand(instruction, 511)
        address == wrapping_add(s.pc, sign_extend(pc_offset, 9)) IN
    index_assign(s, lib_read_memory(s.memory, address), s.registers[r])

\* lib.rs process, Opcode::JMP: the register field is masked with 0xa
lib_process_JMP(s, instruction) ==
    LET r == bitand(shr(instruction, 6), 10)
        rd == lib_register(s, r) IN
    IF ~Alive(rd.s) THEN rd.s ELSE [s EXCEPT !.pc = rd.value]

\* lib.rs process, Opcode::RESERVED
lib_process_RESERVED(s) == Panic(s, "reserved")

\* lib.rs process, Opcode::LEA
lib_process_LEA(s, instruction) ==
    LET r == bitand(shr(instruction, 9), 7)
        pc_offset == bitand(instruction, 511) IN
    [s EXCEPT !.registers[r] = wrapping_add(s.pc, sign_extend(pc_offset, 9))]

\* the while loop of PUTS in lib.rs process
RECURSIVE lib_puts_loop(_, _)
lib_puts_loop(s, i) ==
    IF lib_read_memory(s.memory, i) = 0 THEN s
    ELSE lib_puts_loop(print(s, lib_read_memory(s.memory, i)), i + 1)

\* lib.rs process, Opcode::TRAP
lib_process_TRAP(s, instruction) ==
    LET trap_vector == TrapVector_from_instruction(instruction) IN
    CASE trap_vector = "GETC" -> Panic(s, "not implemented: GETC")
      [] trap_vector = "OUT" -> Panic(s, "not implemented: OUT")
      [] trap_vector = "PUTS" -> lib_puts_loop(s, s.registers[0])
      [] trap_vector = "IN" -> Panic(s, "not implemented: IN")
      [] trap_vector = "PUTSP" -> Panic(s, "not implemented: PUTSP")
      [] trap_vector = "HALT" -> [s EXCEPT !.running = FALSE]
      [] OTHER -> s

\* the match of lib.rs process on the opcode
lib_process_match(s, opcode, instruction) ==
    CASE opcode = "BR" -> lib_process_BR(s, instruction)
      [] opcode = "ADD" -> lib_process_ADD(s, instruction)
      [] opcode = "LD" -> lib_process_LD(s, instruction)
      [] opcode = "ST" -> lib_process_ST(s, instruction)
      [] opcode = "JSR" -> lib_process_JSR(s, instruction)
      [] opcode = "AND" -> lib_process_AND(s, instruction)
      [] opcode = "LDR" -> lib_process_LDR(s, instruction)
      [] opcode = "STR" -> lib_process_STR(s, instruction)
      [] opcode = "UNUSED" -> lib_process_UNUSED(s)
      [] opcode = "NOT" -> lib_process_NOT(s, instruction)
      [] opcode = "LDI" -> lib_process_LDI(s, instruction)
      [] opcode = "STI" -> lib_process_STI(s, instruction)
      [] opcode = "JMP" -> lib_process_JMP(s, instruction)
      [] opcode = "RESERVED" -> lib_process_RESERVED(s)
      [] opcode = "LEA" -> lib_process_LEA(s, instruction)
      [] opcode = "TRAP" -> lib_process_TRAP(s, instruction)

\* what rl.readline gave the debug prompt of lib.rs process: a command line
\* or an error
ReadlineOutcomes == {"c", "i", "read", "exit", "unknown", "Interrupted", "Eof", "Err"}

\* lib.rs process(state, debug): the state after the call, the word it
\* fetched and whether the match on the opcode was reached
lib_process(state, debug, readline) ==
    LET instruction == lib_read_memory(state.memory, state.pc)
        opcode == Opcode_from_instruction(instruction)
        stopped == [state EXCEPT !.running = FALSE]
        prompted == IF debug /\ readline \in {"Interrupted", "Eof", "Err"}
                    THEN stopped ELSE state
        s == [prompted EXCEPT !.pc = wrapping_add(prompted.pc, 1)] IN
    IF debug /\ readline \in {"i", "read", "unknown"}
    THEN [s |-> state, instruction |-> instruction, opcode |-> "NONE"]
    ELSE IF debug /\ readline = "exit"
    THEN [s |-> stopped, instruction |-> instruction, opcode |-> "NONE"]
    ELSE [s |-> lib_process_match(s, opcode, instruction), instruction |-> instruction,
          opcode |-> opcode]

(***************************************************************************)
(* Inputs of the model: the states the executor is started in and the      *)
(* instruction words it is given.                                          *)
(***************************************************************************)
PcValues == {12288, 65023, 65535}    \* 0x3000, 0xfdff (KBSR - 1), 0xffff

R0Values == {2, 65535}

R1Values == {1, 65532}               \* 1, 0xfffc

R7Values == {42}

\* bytes typed on the keyboard
KeyValues == {97}

\* the program image in memory: data the loads and stores meet
ImageCells ==
    [a \in {0, 2, 3, 4, 45, 12288, 12289, 12290, 12291, 12294} |->
        CASE a = 0 -> 32769
          [] a = 2 -> 72
          [] a = 3 -> 105
          [] a = 4 -> 42
          [] a = 45 -> 7
          [] a = 12288 -> 12291
          [] a = 12289 -> 12290
          [] a = 12290 -> 12291
          [] a = 12291 -> 42
          [] a = 12294 -> 32769]

RECURSIVE load(_, _, _)
load(m, image, todo) ==
    IF todo = {} THEN m
    ELSE LET a == CHOOSE x \in todo : TRUE IN
         load(store(m, a, image[a]), image, todo \ {a})

InitialMemory == load(Memory_new, ImageCells, DOMAIN ImageCells)

Off9Values == {5, 511}

Off11Values == {3, 1024, 1027, 2047}

Off6Values == {3, 63}

Imm5Values == {1, 31}

DRs == {1, 2}

SR1s == {1}

LdrBaseRs == {1, 7}

SR2s == {0, 1}

SRs == {0, 1}

BaseRs == {0, 1, 7}

\* an instruction word from its opcode and the rest of its bits
Word_of(opcode, rest) == opcode * 4096 + rest

Words_BR ==
    {Word_of(0, nzp * 512 + 5) : nzp \in 0 .. 7} \cup {Word_of(0, nzp * 512 + 511) : nzp \in {4, 7}}

Words_ADD == {Word_of(1, dr * 512 + sr1 * 64 + sr2) : dr \in DRs, sr1 \in SR1s, sr2 \in SR2s}

Words_ADDIMM ==
    {Word_of(1, dr * 512 + sr1 * 64 + 32 + imm) : dr \in DRs, sr1 \in SR1s, imm \in Imm5Values}

Words_LD == {Word_of(2, dr * 512 + off) : dr \in DRs, off \in Off9Values}

Words_ST == {Word_of(3, sr * 512 + off) : sr \in SRs, off \in Off9Values}

Words_JSR == {Word_of(4, 2048 + off) : off \in Off11Values}

Words_JSRR == {Word_of(4, r * 64) : r \in BaseRs}

Words_AND == {Word_of(5, dr * 512 + sr1 * 64 + sr2) : dr \in DRs, sr1 \in SR1s, sr2 \in SR2s}

Words_ANDIMM ==
    {Word_of(5, dr * 512 + sr1 * 64 + 32 + imm) : dr \in DRs, sr1 \in SR1s, imm \in Imm5Values}

Words_LDR ==
    {Word_of(6, dr * 512 + r * 64 + off) : dr \in DRs, r \in LdrBaseRs, off \in Off6Values}

\* offset 2 from R1 = 0xfffc is MCR
Words_STR ==
    {Word_of(7, sr * 512 + r * 64 + off) : sr \in SRs, r \in LdrBaseRs, off \in Off6Values}
        \cup {Word_of(7, sr * 512 + 64 + 2) : sr \in SRs}

Words_UNUSED == {Word_of(8, 0)}

Words_NOT == {Word_of(9, dr * 512 + sr * 64 + 63) : dr \in DRs, sr \in SRs}

\* 0b1010_000_000000001 is LDI R0, 1
Words_LDI == {Word_of(10, dr * 512 + off) : dr \in DRs, off \in Off9Values} \cup {Word_of(10, 1)}

\* offset 0 at pc = 0xfdff makes KBSR the pointer cell
Words_STI == {Word_of(11, sr * 512 + off) : sr \in SRs, off \in Off9Values \cup {0}}

Words_JMP == {Word_of(12, r * 64) : r \in BaseRs}

Words_RESERVED == {Word_of(13, 0)}

Words_LEA == {Word_of(14, dr * 512 + off) : dr \in DRs, off \in Off9Values}

Words_TRAP == {Word_of(15, v) : v \in 32 .. 37} \cup {Word_of(15, 3840 + 37), Word_of(15, 255)}

(***************************************************************************)
(* The state machine: the executor is given one instruction word at a      *)
(* time, as the run loop gives it the word it fetched, while running is    *)
(* true and nothing has panicked.                                          *)
(***************************************************************************)
NoInstruction == Instruction("NONE", 0, 0, 0, 0)

\* the machine state of the variables; overflow_checks is the build profile
State(oc) ==
    [pc |-> pc, registers |-> registers, memory |-> memory, condition |-> condition,
     running |-> running, stdin |-> stdin, fault |-> fault, io_log |-> <<>>,
     overflow_checks |-> oc]

\* the fields of State and the unread input, as a step finds them
Snapshot ==
    [pc |-> pc, registers |-> registers, memory |-> memory, condition |-> condition,
     running |-> running, stdin |-> stdin]

\* no call of a function on its own is under way
NoCall == [fn |-> "none", args |-> <<>>, returned |-> FALSE, result |-> 0]

\* the address no break-address command has given
NoBreakAddress == 65536

\* State::new: debug_continue and break_address, and the debugger not started.
\* should_break is the local of debugger.rs, run; at is the place run has
\* reached; commands counts the lines read and responses the lines written.
NoDebugger ==
    [debug_continue |-> FALSE, break_address |-> NoBreakAddress, should_break |-> TRUE,
     at |-> "off", commands |-> 0, responses |-> 0]

\* State::new and Memory::new, then the registers, pc and condition the
\* program under execution has set up
Init ==
    /\ pc \in PcValues
    /\ \E v0 \in R0Values, v1 \in R1Values, v7 \in R7Values :
          registers = [Registers_new EXCEPT ![0] = v0, ![1] = v1, ![7] = v7]
    /\ memory = InitialMemory
    /\ condition \in {"N", "Z", "P"}
    /\ running = TRUE
    /\ stdin = <<>>
    /\ fault = "none"
    /\ io_log = <<>>
    /\ last = [instruction |-> NoInstruction, word |-> 0, pre |-> Snapshot]
    /\ steps = 0
    /\ config = [debug |-> FALSE]
    /\ call = NoCall
    /\ debugger = NoDebugger
    /\ trace = <<>>

\* one call execute(state, Instruction::decode(word)); a step that waits for
\* a byte of stdin does not complete
Step(word, oc) ==
    /\ running
    /\ fault = "none"
    /\ steps < MaxSteps
    /\ \E i \in {decode(word)} :
       \E res \in {IF i.fault # "none" THEN Panic(State(oc), i.fault)
                                        ELSE execute(State(oc), i)} :
       /\ res.fault # "blocked"
       /\ pc' = res.pc
       /\ registers' = res.registers
       /\ memory' = res.memory
       /\ condition' = res.condition
       /\ running' = res.running
       /\ stdin' = res.stdin
       /\ fault' = res.fault
       /\ io_log' = res.io_log
       /\ last' = [instruction |-> i, word |-> word, pre |-> Snapshot]
       /\ steps' = steps + 1
       /\ UNCHANGED <<config, call, debugger, trace>>

\* the arms of execute have no unchecked arithmetic, PUTS excepted
ExecuteBR == \E w \in Words_BR : Step(w, TRUE)

ExecuteADD == \E w \in Words_ADD : Step(w, TRUE)

ExecuteADDIMM == \E w \in Words_ADDIMM : Step(w, TRUE)

ExecuteLD == \E w \in Words_LD : Step(w, TRUE)

ExecuteST == \E w \in Words_ST : Step(w, TRUE)

ExecuteJSR == \E w \in Words_JSR : Step(w, TRUE)

ExecuteJSRR == \E w \in Words_JSRR : Step(w, TRUE)

ExecuteAND == \E w \in Words_AND : Step(w, TRUE)

ExecuteANDIMM == \E w \in Words_ANDIMM : Step(w, TRUE)

ExecuteLDR == \E w \in Words_LDR : Step(w, TRUE)

ExecuteSTR == \E w \in Words_STR : Step(w, TRUE)

ExecuteUNUSED == \E w \in Words_UNUSED : Step(w, TRUE)

ExecuteNOT == \E w \in Words_NOT : Step(w, TRUE)

ExecuteLDI == \E w \in Words_LDI : Step(w, TRUE)

ExecuteSTI == \E w \in Words_STI : Step(w, TRUE)

ExecuteJMP == \E w \in Words_JMP : Step(w, TRUE)

ExecuteRESERVED == \E w \in Words_RESERVED : Step(w, TRUE)

ExecuteLEA == \E w \in Words_LEA : Step(w, TRUE)

ExecuteTRAP == \E w \in Words_TRAP, oc \in BOOLEAN : Step(w, oc)

\* the environment: a key is typed and waits unread on stdin
KeyPress ==
    /\ fault = "none"
    /\ Len(stdin) < MaxStdin
    /\ \E k \in KeyValues : stdin' = Append(stdin, k)
    /\ UNCHANGED <<pc, registers, memory, condition, running, fault, io_log, last, steps,
                   config, call, debugger, trace>>

Next ==
    \/ ExecuteBR
    \/ ExecuteADD
    \/ ExecuteADDIMM
    \/ ExecuteLD
    \/ ExecuteST
    \/ ExecuteJSR
    \/ ExecuteJSRR
    \/ ExecuteAND
    \/ ExecuteANDIMM
    \/ ExecuteLDR
    \/ ExecuteSTR
    \/ ExecuteUNUSED
    \/ ExecuteNOT
    \/ ExecuteLDI
    \/ ExecuteSTI
    \/ ExecuteJMP
    \/ ExecuteRESERVED
    \/ ExecuteLEA
    \/ ExecuteTRAP
    \/ KeyPress

Spec == Init /\ [][Next]_vars

(***************************************************************************)
(* The run loops.  A program of three words is loaded at 0x3000 into the   *)
(* State of State::new; every other cell is 0, which is a BR that tests no *)
(* flag.  One step of a loop is one iteration of while state.running.      *)
(***************************************************************************)
RunWords ==
    {4714,      \* 0b0001_001_001_1_01010  ADD R1, R1, #10
     5282,      \* 0b0001_010_010_1_00010  ADD R2, R2, #2
     29315,     \* 0b0111_001_010_000011   STR R1, R2, #3
     26243,     \* 0b0110_011_010_000011   LDR R3, R2, #3
     61472,     \* 0xf020  TRAP GETC
     61477,     \* 0xf025  TRAP HALT
     61695,     \* 0xf0ff  TRAP with a vector that is none of 0x20..0x25
     32768,     \* 0x8000  opcode 1000
     10242}     \* 0b0010_100_000000010   LD R4, #2

Programs == RunWords \X RunWords \X RunWords

\* the first word of a program file: 0x3000, and 0xfdfd, from where the
\* offset 2 of the LD reaches KBSR
Origins == {12288, 65021}

\* the memory of State::new with the words of program from origin on
load_program(program, origin) ==
    [a \in {origin + i - 1 : i \in DOMAIN program} |-> program[a - origin + 1]]

\* State::new, the program loaded at its origin, where pc starts, and the
\* debug flag of the configuration
InitRun(debugs, origins) ==
    /\ pc \in origins
    /\ registers = [r \in 0 .. 7 |-> 0]
    /\ memory \in {load_program(program, pc) : program \in Programs}
    /\ condition = "P"
    /\ running = TRUE
    /\ stdin = <<>>
    /\ fault = "none"
    /\ io_log = <<>>
    /\ last = [instruction |-> NoInstruction, word |-> 0, pre |-> Snapshot]
    /\ steps = 0
    /\ config \in {[debug |-> d] : d \in debugs}
    /\ call = NoCall
    /\ debugger = NoDebugger
    /\ trace = <<>>

\* the variables after one call of process returned res
Processed(res) ==
    /\ res.s.fault # "blocked"
    /\ pc' = res.s.pc
    /\ registers' = res.s.registers
    /\ memory' = res.s.memory
    /\ condition' = res.s.condition
    /\ running' = res.s.running
    /\ stdin' = res.s.stdin
    /\ fault' = res.s.fault
    /\ io_log' = res.s.io_log
    /\ last' = [instruction |-> [NoInstruction EXCEPT !.tag = res.opcode],
                word |-> res.instruction, pre |-> Snapshot]
    /\ steps' = steps + 1
    /\ UNCHANGED <<config, call>>

\* the run loops of process.rs and lib.rs have no debugger of debugger.rs
NoDebuggerStep == UNCHANGED <<debugger, trace>>

\* a loop that calls process whether or not running is set
run_unguarded ==
    /\ fault = "none"
    /\ steps < MaxRunSteps
    /\ \E res \in {process(State(TRUE))} : Processed(res)
    /\ NoDebuggerStep

\* process.rs, run: while state.running { state = process(state) }
run ==
    /\ running
    /\ fault = "none"
    /\ steps < MaxRunSteps
    /\ \E res \in {process(State(TRUE))} : Processed(res)
    /\ NoDebuggerStep

InitProcess == InitRun({FALSE}, Origins)

NextProcess ==
    \/ run
    \/ KeyPress

SpecProcess == InitProcess /\ [][NextProcess]_vars

\* lib.rs, run: while state.running { state = process(state, config.debug) }
lib_run ==
    /\ running
    /\ fault = "none"
    /\ steps < MaxRunSteps
    /\ \E readline \in (IF config.debug THEN ReadlineOutcomes ELSE {"c"}) :
       \E res \in {lib_process(State(TRUE), config.debug, readline)} : Processed(res)
    /\ NoDebuggerStep

\* lib.rs, run loads every program at 0x3000
InitLib == InitRun(BOOLEAN, {12288})

NextLib ==
    \/ lib_run
    \/ KeyPress

SpecLib == InitLib /\ [][NextLib]_vars

(***************************************************************************)
(* The pure functions, called on their own: call holds the function, its   *)
(* arguments and, once it has returned, its result.                        *)
(***************************************************************************)
\* the machine of State::new, which a call of a pure function leaves alone
InitIdle ==
    /\ pc = 12288
    /\ registers = [r \in 0 .. 7 |-> 0]
    /\ memory = State_new_memory
    /\ condition = "P"
    /\ running = TRUE
    /\ stdin = <<>>
    /\ fault = "none"
    /\ io_log = <<>>
    /\ last = [instruction |-> NoInstruction, word |-> 0, pre |-> Snapshot]
    /\ steps = 0
    /\ config = [debug |-> FALSE]
    /\ debugger = NoDebugger
    /\ trace = <<>>

Idle ==
    UNCHANGED <<pc, registers, memory, condition, running, stdin, fault, io_log, last, steps,
                config, debugger, trace>>

\* every bit count of 1..15 with every value that has that many bits
InitSignExtend ==
    /\ InitIdle
    /\ \E bit_count \in 1 .. 15 :
       \E value \in 0 .. (2 ^ bit_count - 1) :
          call = [fn |-> "sign_extend", args |-> <<value, bit_count>>, returned |-> FALSE,
                  result |-> 0]

\* value.sign_extend(bit_count)
CallSignExtend ==
    /\ call.fn = "sign_extend"
    /\ ~call.returned
    /\ call' = [call EXCEPT !.returned = TRUE,
                            !.result = sign_extend(call.args[1], call.args[2])]
    /\ Idle

SpecSignExtend == InitSignExtend /\ [][CallSignExtend]_vars

\* every 16-bit word
InitDecode ==
    /\ InitIdle
    /\ call \in {[fn |-> "decode", args |-> <<w>>, returned |-> FALSE, result |-> 0] :
                    w \in 0 .. 65535}

\* Instruction::decode(instruction)
CallDecode ==
    /\ call.fn = "decode"
    /\ ~call.returned
    /\ call' = [call EXCEPT !.returned = TRUE, !.result = decode(call.args[1])]
    /\ Idle

SpecDecode == InitDecode /\ [][CallDecode]_vars

(***************************************************************************)
(* The memory on its own (state/memory.rs): Memory::new, then calls of     *)
(* read and write in any order while keys are typed.  call holds the last  *)
(* call and trace every call made so far, as <<"read", address, value>>    *)
(* for a read that returned value and <<"write", address, value>>.  steps  *)
(* counts the calls.  A read that waits for a byte of stdin does not       *)
(* complete.                                                               *)
(***************************************************************************)
\* number of calls of read and write in one behaviour
MaxCalls == 3

MemoryAddresses == {KBSR, KBDR, DSR, 12288, 65535}

MemoryValues == {0, 32768}

InitMemory ==
    /\ pc = 12288
    /\ registers = Registers_new
    /\ memory = Memory_new
    /\ condition = "P"
    /\ running = TRUE
    /\ stdin = <<>>
    /\ fault = "none"
    /\ io_log = <<>>
    /\ last = [instruction |-> NoInstruction, word |-> 0, pre |-> Snapshot]
    /\ steps = 0
    /\ config = [debug |-> FALSE]
    /\ call = NoCall
    /\ debugger = NoDebugger
    /\ trace = <<>>

\* the variables after a call of a method of Memory left the state s
MemoryCalled(s) ==
    /\ s.fault # "blocked"
    /\ memory' = s.memory
    /\ stdin' = s.stdin
    /\ fault' = s.fault
    /\ io_log' = s.io_log
    /\ last' = [last EXCEPT !.pre = Snapshot]
    /\ steps' = steps + 1
    /\ UNCHANGED <<pc, registers, condition, running, config, debugger>>

\* memory.read(address)
CallMemoryRead ==
    /\ fault = "none"
    /\ steps < MaxCalls
    /\ \E address \in MemoryAddresses :
       \E res \in {Memory_read(State(TRUE), address)} :
          /\ MemoryCalled(res.s)
          /\ call' = [fn |-> "Memory::read", args |-> <<address>>,
                      returned |-> res.s.fault = "none", result |-> res.value]
          /\ trace' = IF res.s.fault = "none"
                      THEN Append(trace, <<"read", address, res.value>>)
                      ELSE trace

\* memory.write(address, value)
CallMemoryWrite ==
    /\ fault = "none"
    /\ steps < MaxCalls
    /\ \E address \in MemoryAddresses, value \in MemoryValues :
       \E s \in {Memory_write(State(TRUE), address, value)} :
          /\ MemoryCalled(s)
          /\ call' = [fn |-> "Memory::write", args |-> <<address, value>>,
                      returned |-> s.fault = "none", result |-> 0]
          /\ trace' = IF s.fault = "none"
                      THEN Append(trace, <<"write", address, value>>)
                      ELSE trace

NextMemory ==
    \/ CallMemoryRead
    \/ CallMemoryWrite
    \/ KeyPress

SpecMemory == InitMemory /\ [][NextMemory]_vars

(***************************************************************************)
(* The debugger (debugger.rs, debugger/disassemble.rs).  run accepts one   *)
(* client and then alternates between the command loop and one call of     *)
(* process.  debugger.at is the place run has reached: "accept" before the *)
(* client connects, "outer" at the test of while state.running, "inner" at *)
(* the test of the command loop, "returned" once run has returned.  A line *)
(* of the client is its verb and the address its hexadecimal argument      *)
(* denotes, NoBreakAddress when it has no argument of the form             *)
(* 0x[a-f0-9]{1,4}.  call holds the last line and its response.            *)
(***************************************************************************)
\* number of lines the client sends in one behaviour
MaxCommands == 3

Line(verb, address) == [verb |-> verb, address |-> address]

\* disassemble(instruction): the fields of the text, or the panic
disassemble(instruction) ==
    LET opcode == Opcode_from_instruction(instruction)
        text(fields) == [fault |-> "none", text |-> fields]
        r9 == bitand(shr(instruction, 9), 7)
        r6 == bitand(shr(instruction, 6), 7) IN
    CASE opcode = "BR" ->
            text(<<bitand(shr(instruction, 11), 1), bitand(shr(instruction, 10), 1),
                   bitand(shr(instruction, 9), 1)>>)
      [] opcode = "ADD" -> text(<<r9, r6, bitand(shr(instruction, 5), 1) = 1>>)
      [] opcode \in {"LD", "ST", "STI", "LEA"} -> text(<<r9, bitand(instruction, 511)>>)
      [] opcode = "JSR" ->
            IF bitand(shr(instruction, 11), 1) = 1
            THEN text(<<"pc_offset", bitand(instruction, 511)>>)
            ELSE text(<<"(JSRR)", r6>>)
      [] opcode = "AND" ->
            text(<<bitand(shr(instruction, 5), 1) = 1, sign_extend(bitand(instruction, 31), 5),
                   r9, r6, bitand(instruction, 7)>>)
      [] opcode \in {"LDR", "STR"} -> text(<<r9, r6, bitand(instruction, 63)>>)
      [] opcode = "UNUSED" -> [fault |-> "unused", text |-> <<>>]
      [] opcode = "NOT" -> text(<<r9, r6>>)
      [] opcode = "LDI" -> text(<<r9, sign_extend(bitand(instruction, 511), 9)>>)
      [] opcode = "JMP" -> text(<<bitand(shr(instruction, 6), 10)>>)
      [] opcode = "RESERVED" -> [fault |-> "reserved", text |-> <<>>]
      [] opcode = "TRAP" ->
            IF TrapVector_from_instruction(instruction) # "Err"
            THEN text(<<"trap_vector", TrapVector_from_instruction(instruction)>>)
            ELSE text(<<"Unknown trap vector">>)

\* the top of the outer loop: should_break, and the breakpoint that is hit
\* cleared
should_break_of(dbg, s) ==
    IF dbg.break_address # NoBreakAddress
    THEN IF dbg.break_address = s.pc
         THEN [dbg EXCEPT !.break_address = NoBreakAddress, !.should_break = TRUE]
         ELSE [dbg EXCEPT !.should_break = FALSE]
    ELSE [dbg EXCEPT !.should_break = TRUE]

\* a test of the command loop that leaves state.running out
Paused_whether_running(dbg, s) == ~dbg.debug_continue /\ dbg.should_break

\* the test of the command loop
Paused(dbg, s) == s.running /\ ~dbg.debug_continue /\ dbg.should_break

\* one round of the command loop on the line the client sent: the state,
\* the fields of the debugger and the response written
serve(s0, dbg0, line) ==
    LET dbg == [dbg0 EXCEPT !.debug_continue = FALSE]
        plain == line.address = NoBreakAddress
        answer(s, d, response) == [s |-> s, dbg |-> d, response |-> response] IN
    IF line.verb = "<not an array>" THEN
        answer(Panic(s0, "Unknown value"), dbg, <<>>)
    ELSE IF line.verb \in {"c", "continue"} /\ plain THEN
        answer(s0, [dbg EXCEPT !.debug_continue = TRUE], <<"PC", s0.pc>>)
    ELSE IF line.verb = "condition" /\ plain THEN
        answer(s0, dbg, <<"condition", s0.condition>>)
    ELSE IF line.verb \in {"r", "registers"} /\ plain THEN
        answer(s0, dbg, <<"registers", s0.registers>>)
    ELSE IF line.verb \in {"d", "disassemble"} /\ plain THEN
        LET rd == read_memory(s0, s0.pc)
            instruction == rd.value
            opcode == Opcode_from_instruction(instruction)
            dis == disassemble(instruction) IN
        IF dis.fault # "none"
        THEN answer(Panic(rd.s, dis.fault), dbg, <<>>)
        ELSE answer(rd.s, dbg,
                    <<"disassemble", opcode, bitand(shr(instruction, 8), 255),
                      bitand(instruction, 255), dis.text>>)
    ELSE IF line.verb = "read" /\ ~plain THEN
        LET rd == read_memory(s0, line.address) IN
        answer(rd.s, dbg, <<"read", rd.value>>)
    ELSE IF line.verb = "break-address" /\ ~plain THEN
        answer(s0, [dbg EXCEPT !.break_address = line.address],
               <<"Break address set to", line.address>>)
    ELSE IF line.verb \in {"h", "help"} /\ plain THEN
        answer(s0, dbg, <<"help">>)
    ELSE IF line.verb = "exit" /\ plain THEN
        answer([s0 EXCEPT !.running = FALSE], dbg, <<"Exiting...">>)
    ELSE answer(s0, dbg, <<"Unknown command", line>>)

\* the lines of the client: every arm of the match, f and flags, which have
\* no arm, and a read without its address
DebuggerLines ==
    {Line(v, NoBreakAddress) :
        v \in {"c", "continue", "condition", "r", "registers", "d", "disassemble", "h",
               "help", "exit", "f", "flags", "read", "<not an array>"}}
        \cup {Line("read", a) : a \in {KBSR, 12288}}
        \cup {Line("break-address", a) : a \in {12288, 12290}}

\* programs under the debugger: two ADDs and HALT, GETC first, and a word
\* of opcode 1000 that the second instruction is
DebuggerPrograms ==
    {<<4714, 5282, 61477>>, <<61472, 4714, 61477>>, <<4714, 32768, 61477>>}

InitDebugger ==
    /\ pc = 12288
    /\ registers = [r \in 0 .. 7 |-> 0]
    /\ memory \in {load_program(program, pc) : program \in DebuggerPrograms}
    /\ condition = "P"
    /\ running = TRUE
    /\ stdin = <<>>
    /\ fault = "none"
    /\ io_log = <<>>
    /\ last = [instruction |-> NoInstruction, word |-> 0, pre |-> Snapshot]
    /\ steps = 0
    /\ config = [debug |-> TRUE]
    /\ call = NoCall
    /\ debugger = [NoDebugger EXCEPT !.at = "accept"]
    /\ trace = <<>>

\* listener.accept(): a client connects, or the call fails and run returns
DebuggerAccept ==
    /\ debugger.at = "accept"
    /\ \E ok \in BOOLEAN :
          debugger' = [debugger EXCEPT !.at = IF ok THEN "outer" ELSE "returned"]
    /\ UNCHANGED <<pc, registers, memory, condition, running, stdin, fault, io_log, last,
                   steps, config, call, trace>>

\* an outer loop that computes should_break and leaves the breakpoint set
DebuggerOuter_keeps_breakpoint ==
    /\ debugger.at = "outer"
    /\ fault = "none"
    /\ debugger' =
          IF running
          THEN [debugger EXCEPT !.at = "inner",
                                !.should_break = (debugger.break_address = NoBreakAddress
                                                  \/ debugger.break_address = pc)]
          ELSE [debugger EXCEPT !.at = "returned"]
    /\ UNCHANGED <<pc, registers, memory, condition, running, stdin, fault, io_log, last,
                   steps, config, call, trace>>

\* while state.running { should_break ... }: the test of the outer loop and
\* the lines up to the command loop
DebuggerOuter ==
    /\ debugger.at = "outer"
    /\ fault = "none"
    /\ debugger' =
          IF running
          THEN [should_break_of(debugger, State(TRUE)) EXCEPT !.at = "inner"]
          ELSE [debugger EXCEPT !.at = "returned"]
    /\ UNCHANGED <<pc, registers, memory, condition, running, stdin, fault, io_log, last,
                   steps, config, call, trace>>

\* a command loop whose exit command leaves run at once, without the step
\* that follows the loop
DebuggerCommand_exit_returns ==
    /\ debugger.at = "inner"
    /\ fault = "none"
    /\ Paused(debugger, State(TRUE))
    /\ debugger.commands < MaxCommands
    /\ \E line \in DebuggerLines :
       \E res \in {serve(State(TRUE), debugger, line)} :
          /\ memory' = res.s.memory
          /\ running' = res.s.running
          /\ stdin' = res.s.stdin
          /\ fault' = res.s.fault
          /\ io_log' = res.s.io_log
          /\ debugger' =
                [res.dbg EXCEPT !.commands = @ + 1,
                                !.responses = IF res.s.fault = "none" THEN @ + 1 ELSE @,
                                !.at = IF res.s.running THEN "inner" ELSE "returned"]
          /\ call' = [fn |-> "command", args |-> <<line>>, returned |-> res.s.fault = "none",
                      result |-> res.response]
          /\ UNCHANGED <<pc, registers, condition, last, steps, config, trace>>

\* one round of the command loop: a line is read and its response written
DebuggerCommand ==
    /\ debugger.at = "inner"
    /\ fault = "none"
    /\ Paused(debugger, State(TRUE))
    /\ debugger.commands < MaxCommands
    /\ \E line \in DebuggerLines :
       \E res \in {serve(State(TRUE), debugger, line)} :
          /\ memory' = res.s.memory
          /\ running' = res.s.running
          /\ stdin' = res.s.stdin
          /\ fault' = res.s.fault
          /\ io_log' = res.s.io_log
          /\ debugger' =
                [res.dbg EXCEPT !.commands = @ + 1,
                                !.responses = IF res.s.fault = "none" THEN @ + 1 ELSE @]
          /\ call' = [fn |-> "command", args |-> <<line>>, returned |-> res.s.fault = "none",
                      result |-> res.response]
          /\ UNCHANGED <<pc, registers, condition, last, steps, config, trace>>

\* a step that leaves debug_continue as the command loop left it
DebuggerStep_keeps_continue ==
    /\ debugger.at = "inner"
    /\ fault = "none"
    /\ ~Paused(debugger, State(TRUE))
    /\ steps < MaxRunSteps \/ ~running
    /\ \E res \in {process(State(TRUE))} : Processed(res)
    /\ debugger' = [debugger EXCEPT !.at = "outer"]
    /\ UNCHANGED trace

\* the command loop is over: state.debug_continue = false;
\* state = state.process()
DebuggerStep ==
    /\ debugger.at = "inner"
    /\ fault = "none"
    /\ ~Paused(debugger, State(TRUE))
    /\ steps < MaxRunSteps \/ ~running
    /\ \E res \in {process(State(TRUE))} : Processed(res)
    /\ debugger' = [debugger EXCEPT !.debug_continue = FALSE, !.at = "outer"]
    /\ UNCHANGED trace

NextDebugger ==
    \/ DebuggerAccept
    \/ DebuggerOuter
    \/ DebuggerCommand
    \/ DebuggerStep
    \/ KeyPress

SpecDebugger == InitDebugger /\ [][NextDebugger]_vars

\* run is one thread: between its reads of the client and of stdin it goes
\* on, so the loop test and the step after the command loop are not put off
\* for ever
FairSpecDebugger == SpecDebugger /\ WF_vars(DebuggerOuter) /\ WF_vars(DebuggerStep)

(***************************************************************************)
(* Decode and execute on every value of a sign-extended field: the words   *)
(* of ADD and AND with an immediate, for each of the 32 values of imm5,    *)
(* and of LDI, for each of the 512 values of PCoffset9.  call holds the    *)
(* word; the machine is the one of Init at 0x3000.                         *)
(***************************************************************************)
ImmediateWords ==
    {Word_of(1, 2 * 512 + 1 * 64 + 32 + imm5) : imm5 \in 0 .. 31}
        \cup {Word_of(5, 2 * 512 + 1 * 64 + 32 + imm5) : imm5 \in 0 .. 31}
        \cup {Word_of(10, 2 * 512 + off9) : off9 \in 0 .. 511}

InitImmediate ==
    /\ pc = 12288
    /\ \E v1 \in R1Values : registers = [Registers_new EXCEPT ![1] = v1]
    /\ memory = InitialMemory
    /\ condition = "Z"
    /\ running = TRUE
    /\ stdin = <<>>
    /\ fault = "none"
    /\ io_log = <<>>
    /\ last = [instruction |-> NoInstruction, word |-> 0, pre |-> Snapshot]
    /\ steps = 0
    /\ config = [debug |-> FALSE]
    /\ call \in {[fn |-> "execute", args |-> <<w>>, returned |-> FALSE, result |-> 0] :
                    w \in ImmediateWords}
    /\ debugger = NoDebugger
    /\ trace = <<>>

\* execute(state, Instruction::decode(word))
ExecuteImmediate ==
    /\ call.fn = "execute"
    /\ ~call.returned
    /\ running
    /\ fault = "none"
    /\ \E i \in {decode(call.args[1])} :
       \E res \in {IF i.fault # "none" THEN Panic(State(TRUE), i.fault)
                                        ELSE execute(State(TRUE), i)} :
       /\ res.fault # "blocked"
       /\ pc' = res.pc
       /\ registers' = res.registers
       /\ memory' = res.memory
       /\ condition' = res.condition
       /\ running' = res.running
       /\ stdin' = res.stdin
       /\ fault' = res.fault
       /\ io_log' = res.io_log
       /\ last' = [instruction |-> i, word |-> call.args[1], pre |-> Snapshot]
       /\ steps' = steps + 1
       /\ call' = [call EXCEPT !.returned = TRUE]
       /\ UNCHANGED <<config, debugger, trace>>

SpecImmediate == InitImmediate /\ [][ExecuteImmediate]_vars

(***************************************************************************)
(* disassemble called on its own, on every 16-bit word: call holds the     *)
(* word and, once the call has returned, the fields of the text; a call    *)
(* that panics sets fault to the panic message and does not return.        *)
(***************************************************************************)
InitDisassemble ==
    /\ InitIdle
    /\ call \in {[fn |-> "disassemble", args |-> <<w>>, returned |-> FALSE, result |-> <<>>] :
                    w \in 0 .. 65535}

\* disassemble(instruction)
CallDisassemble ==
    /\ call.fn = "disassemble"
    /\ ~call.returned
    /\ fault = "none"
    /\ \E dis \in {disassemble(call.args[1])} :
          /\ call' = [call EXCEPT !.returned = dis.fault = "none", !.result = dis.text]
          /\ fault' = dis.fault
    /\ UNCHANGED <<pc, registers, memory, condition, running, stdin, io_log, last, steps,
                   config, debugger, trace>>

SpecDisassemble == InitDisassemble /\ [][CallDisassemble]_vars

(***************************************************************************)
(* The loaders (file_loader.rs, file.rs).  A program file is the sequence  *)
(* of its bytes.  load_file is called on the State of State::new and the   *)
(* loaded machine then executes from its PC; from_bytes is a function of   *)
(* the bytes alone.  call holds the function, the bytes and, once it has   *)
(* returned, "Ok", "Err" or the words.                                     *)
(***************************************************************************)
\* number of bytes of a program file
MaxBytes == 5

ByteValues == {0, 37, 48, 240, 255}

\* a read that takes the low byte first
read_u16_little_endian(bytes, k) == bitor(bytes[k], shl(bytes[k + 1], 8))

\* reader.read_u16::<BigEndian>() of the bytes k and k + 1
read_u16(bytes, k) == bitor(shl(bytes[k], 8), bytes[k + 1])

RECURSIVE load_words(_, _, _, _)
\* the loop of load_file: bytes from k on, the next word going to address
load_words(s, bytes, k, address) ==
    IF k + 1 > Len(bytes) THEN [s |-> s, result |-> "Ok"]
    ELSE LET written == Memory_write(s, address, read_u16(bytes, k)) IN
         IF ~Alive(written) THEN [s |-> written, result |-> "panic"]
         ELSE IF address + 1 >= WordModulus
              THEN IF s.overflow_checks
                   THEN [s |-> Panic(written, "attempt to add with overflow"),
                         result |-> "panic"]
                   ELSE load_words(written, bytes, k + 2, 0)
              ELSE load_words(written, bytes, k + 2, address + 1)

\* load_file(filename, state) on a file that holds bytes
load_file(bytes, state) ==
    IF Len(bytes) < 2 THEN [s |-> state, result |-> "Err"]
    ELSE LET address == read_u16(bytes, 1) IN
         load_words([state EXCEPT !.pc = address], bytes, 3, address)

\* from_bytes(data)
from_bytes(data) ==
    IF Len(data) % 2 # 0 THEN [result |-> "Err", words |-> <<>>]
    ELSE [result |-> "Ok",
          words |-> [i \in 1 .. (Len(data) \div 2) |->
                        bitor(data[2 * i], shl(data[2 * i - 1], 8))]]

\* State::new with Memory::new, and a call on the bytes of a file
InitLoader ==
    /\ pc = 12288
    /\ registers = Registers_new
    /\ memory = Memory_new
    /\ condition = "P"
    /\ running = TRUE
    /\ stdin = <<>>
    /\ fault = "none"
    /\ io_log = <<>>
    /\ last = [instruction |-> NoInstruction, word |-> 0, pre |-> Snapshot]
    /\ steps = 0
    /\ config = [debug |-> FALSE]
    /\ debugger = NoDebugger
    /\ trace = <<>>
    /\ \E n \in 0 .. MaxBytes, fn \in {"load_file", "from_bytes"}, oc \in BOOLEAN :
       \E bytes \in [1 .. n -> ByteValues] :
          call = [fn |-> fn, args |-> <<bytes, oc>>, returned |-> FALSE, result |-> 0]

CallLoadFile ==
    /\ call.fn = "load_file"
    /\ ~call.returned
    /\ \E res \in {load_file(call.args[1], State(call.args[2]))} :
          /\ pc' = res.s.pc
          /\ memory' = res.s.memory
          /\ fault' = res.s.fault
          /\ call' = [call EXCEPT !.returned = TRUE, !.result = res.result]
    /\ UNCHANGED <<registers, condition, running, stdin, io_log, last, steps, config,
                   debugger, trace>>

CallFromBytes ==
    /\ call.fn = "from_bytes"
    /\ ~call.returned
    /\ call' = [call EXCEPT !.returned = TRUE, !.result = from_bytes(call.args[1])]
    /\ Idle

\* the loaded machine fetches the word at its PC, decodes and executes it
ExecuteLoaded ==
    /\ call.fn = "load_file"
    /\ call.returned
    /\ call.result = "Ok"
    /\ running
    /\ fault = "none"
    /\ steps < MaxSteps
    /\ \E rd \in {Memory_read(State(call.args[2]), pc)} :
       \E i \in {decode(rd.value)} :
       \E res \in {IF ~Alive(rd.s) THEN rd.s
                    ELSE IF i.fault # "none" THEN Panic(rd.s, i.fault)
                    ELSE execute([rd.s EXCEPT !.io_log = <<>>], i)} :
          /\ res.fault # "blocked"
          /\ pc' = res.pc
          /\ registers' = res.registers
          /\ memory' = res.memory
          /\ condition' = res.condition
          /\ running' = res.running
          /\ stdin' = res.stdin
          /\ fault' = res.fault
          /\ io_log' = res.io_log
          /\ last' = [instruction |-> i, word |-> rd.value, pre |-> Snapshot]
          /\ steps' = steps + 1
          /\ UNCHANGED <<config, call, debugger, trace>>

NextLoader ==
    \/ CallLoadFile
    \/ CallFromBytes
    \/ ExecuteLoaded

SpecLoader == InitLoader /\ [][NextLoader]_vars

(***************************************************************************)
(* The configuration (config.rs): Config::with on the arguments of the     *)
(* process, the name of the program first.                                 *)
(***************************************************************************)
\* number of arguments after the program name
MaxArgs == 4

ArgValues == {"--debug", "filename", "other"}

RECURSIVE config_loop(_, _, _)
\* for arg in args, from the k-th on
config_loop(cfg, args, k) ==
    IF k > Len(args) THEN cfg
    ELSE IF args[k] = "--debug" THEN config_loop([cfg EXCEPT !.debug = TRUE], args, k + 1)
    ELSE config_loop([cfg EXCEPT !.filename = args[k]], args, k + 1)

\* Config::with(args)
Config_with(args) ==
    IF Len(args) < 2 THEN [result |-> "Err", error |-> "not enough arguments"]
    ELSE [result |-> "Ok", config |-> config_loop([filename |-> "", debug |-> FALSE], args, 1)]

InitConfig ==
    /\ InitIdle
    /\ \E n \in 0 .. MaxArgs :
       \E rest \in [1 .. n -> ArgValues] :
          call \in {[fn |-> "Config::with", args |-> <<a>>, returned |-> FALSE, result |-> 0] :
                       a \in {<<>>, <<"program_name">> \o rest}}

CallConfigWith ==
    /\ call.fn = "Config::with"
    /\ ~call.returned
    /\ call' = [call EXCEPT !.returned = TRUE, !.result = Config_with(call.args[1])]
    /\ Idle

SpecConfig == InitConfig /\ [][CallConfigWith]_vars

(***************************************************************************)
(* Vocabulary of the properties.  They are stated on the last executed     *)
(* step: last.word is the instruction word, last.instruction its decoded   *)
(* form and last.pre the machine state the step started from; the          *)
(* variables hold the state the step returned.                             *)
(***************************************************************************)
\* the last call of execute returned a state (it did not panic)
Returned == steps > 0 /\ fault = "none"

LastTag == last.instruction.tag

\* operand fields of the last instruction word, as the ISA lays them out
FieldDR == (last.word \div 512) % 8

FieldSR1 == (last.word \div 64) % 8

FieldSR2 == last.word % 8

FieldOff9 == last.word % 512

FieldOff11 == last.word % 2048

FieldImm5 == last.word % 32

\* the value of a bits-bit two's-complement field
Signed(field, bits) == IF field >= 2 ^ (bits - 1) THEN field - 2 ^ bits ELSE field

\* the incremented PC of the last step
IncrementedPc == (last.pre.pc + 1) % 65536

\* the flag that describes a 16-bit value
FlagOf(v) == IF v = 0 THEN "Z" ELSE IF v >= 32768 THEN "N" ELSE "P"

\* the last instruction was a BR whose tested flags match the condition code
BrTaken ==
    /\ LastTag = "BR"
    /\ \/ ((last.word \div 2048) % 2 = 1 /\ last.pre.condition = "N")
       \/ ((last.word \div 1024) % 2 = 1 /\ last.pre.condition = "Z")
       \/ ((last.word \div 512) % 2 = 1 /\ last.pre.condition = "P")

\* addresses whose read is not a plain read of the array
MappedRegisters == {KBSR, KBDR, DSR, DDR, MCR}

(***************************************************************************)
(* C1: an instruction that is not a control transfer (ADD, ADDIMM, AND,    *)
(* ANDIMM, NOT, LD, LDI, LDR, LEA, ST, STI, STR, TRAP, or a BR that is not  *)
(* taken) returns with PC = (PC + 1) mod 2^16: one increment, wrapping     *)
(* from 0xFFFF to 0.                                                       *)
(***************************************************************************)
NotControlTransfer ==
    \/ LastTag \in {"ADD", "ADDIMM", "AND", "ANDIMM", "NOT", "LD", "LDI", "LDR", "LEA",
                    "ST", "STI", "STR", "TRAP"}
    \/ (LastTag = "BR" /\ ~BrTaken)

PcRelativeAddress == (last.pre.pc + 1 + Signed(FieldOff9, 9)) % 65536

C2_PcRelativeFromIncrementedPc ==
    /\ (Returned /\ LastTag = "LD") =>
          /\ io_log = << <<"read", PcRelativeAddress>> >>
          /\ PcRelativeAddress \notin MappedRegisters =>
                registers[FieldDR] = cell(last.pre.memory, PcRelativeAddress)
    /\ (Returned /\ LastTag = "ST") =>
          /\ io_log = << <<"write", PcRelativeAddress, last.pre.registers[FieldDR]>> >>
          /\ cell(memory, PcRelativeAddress) = last.pre.registers[FieldDR]
    /\ (Returned /\ LastTag = "LEA") => registers[FieldDR] = PcRelativeAddress

C2_Witness ==
    /\ Returned
    /\ LastTag = "LD"
    /\ last.pre.pc = 12288
    /\ FieldOff9 = 511
    /\ registers[FieldDR] = 12291

(***************************************************************************)
(* C3: after ADD, ADDIMM, NOT, LD, LDI or LDR the condition code is N iff  *)
(* bit 15 of the destination register is 1, Z iff the register is 0 and P  *)
(* otherwise.                                                              *)
(***************************************************************************)
SetsCondition == LastTag \in {"ADD", "ADDIMM", "NOT", "LD", "LDI", "LDR"}

C3_ConditionFromDestination ==
    (Returned /\ SetsCondition) =>
        /\ (condition = "N") <=> ((registers[FieldDR] \div 32768) % 2 = 1)
        /\ (condition = "Z") <=> (registers[FieldDR] = 0)
        /\ (condition = "P") <=> (registers[FieldDR] \in 1 .. 32767)

C3_Witness ==
    /\ Returned
    /\ SetsCondition
    /\ last.pre.condition = "P"
    /\ condition = "N"
    /\ registers[FieldDR] >= 32768

(***************************************************************************)
(* C4: AND and AND-immediate update the condition code from the value      *)
(* written to DR.                                                          *)
(***************************************************************************)
C4_AndSetsCondition ==
    (Returned /\ LastTag \in {"AND", "ANDIMM"}) => condition = FlagOf(registers[FieldDR])

(***************************************************************************)
(* C5: LEA updates the condition code from the address written to DR.      *)
(***************************************************************************)
C5_LeaSetsCondition == (Returned /\ LastTag = "LEA") => condition = FlagOf(registers[FieldDR])

(***************************************************************************)
(* C6: BR, ST, STI, STR, JMP, JSR, JSRR and every TRAP leave the condition *)
(* code as it was before the step.                                         *)
(***************************************************************************)
KeepsCondition == LastTag \in {"BR", "ST", "STI", "STR", "JMP", "JSR", "JSRR", "TRAP"}

C6_ConditionUnchanged == (Returned /\ KeepsCondition) => condition = last.pre.condition

\* GETC put a positive value in R0 and the condition code still says N
C6_Witness ==
    /\ Returned
    /\ LastTag = "TRAP"
    /\ last.instruction.trap_vector = "GETC"
    /\ registers[0] = 97
    /\ last.pre.registers[0] # 97
    /\ condition = "N"

(***************************************************************************)
(* C7: ADD and ADD-immediate never fail and leave DR = (SR1 + operand2)    *)
(* mod 2^16, operand2 being SR2 or sext(imm5, 5); with R0 = 0xFFFF and     *)
(* R1 = 1, ADD R2, R1, R0 gives R2 = 0 and CC = Z.                         *)
(***************************************************************************)
\* 0b0001_010_001_0_00_000: ADD R2, R1, R0
WordAddR2R1R0 == 5184

C7_AddWraps ==
    /\ (steps > 0 /\ LastTag = "ADD") =>
          /\ fault = "none"
          /\ registers[FieldDR] =
                (last.pre.registers[FieldSR1] + last.pre.registers[FieldSR2]) % 65536
    /\ (steps > 0 /\ LastTag = "ADDIMM") =>
          /\ fault = "none"
          /\ registers[FieldDR] =
                (last.pre.registers[FieldSR1] + Signed(FieldImm5, 5)) % 65536
    /\ (/\ steps > 0
        /\ last.word = WordAddR2R1R0
        /\ last.pre.registers[0] = 65535
        /\ last.pre.registers[1] = 1) => (registers[2] = 0 /\ condition = "Z")

C7_Witness ==
    /\ Returned
    /\ last.word = WordAddR2R1R0
    /\ last.pre.registers[0] = 65535
    /\ last.pre.registers[1] = 1
    /\ registers[2] = 0
    /\ condition = "Z"

(***************************************************************************)
(* C8: BR sets PC to (p + 1 + sext(off, 9)) mod 2^16 iff one of its n, z,  *)
(* p flags is set together with the matching condition code, and to p + 1  *)
(* otherwise; a BR with no flag set never branches.                        *)
(***************************************************************************)
C8_BranchIffFlagMatches ==
    (steps > 0 /\ LastTag = "BR") =>
        /\ fault = "none"
        /\ BrTaken => pc = PcRelativeAddress
        /\ ~BrTaken => pc = IncrementedPc
        /\ (last.word \div 512) % 8 = 0 => pc = IncrementedPc

C8_Witness ==
    /\ Returned
    /\ BrTaken
    /\ (last.word \div 512) % 8 = 4
    /\ last.pre.condition = "N"
    /\ last.pre.pc = 12288
    /\ pc = 12294

(***************************************************************************)
(* C9: JSR sets R7 = p + 1 and PC = (p + 1 + sext(off, 11)) mod 2^16,      *)
(* with all 11 bits of the offset field: bit 10 set is a negative          *)
(* displacement.                                                           *)
(***************************************************************************)
C9_JsrUsesElevenBits ==
    (steps > 0 /\ LastTag = "JSR") =>
        /\ fault = "none"
        /\ registers[7] = IncrementedPc
        /\ pc = (last.pre.pc + 1 + Signed(FieldOff11, 11)) % 65536

\* the offset 1027 of the test: 0x3001 + 0xFC03 = 0x2C04
C9_Witness ==
    /\ Returned
    /\ LastTag = "JSR"
    /\ FieldOff11 = 1027
    /\ last.pre.pc = 12288
    /\ pc = 11268
    /\ registers[7] = 12289

(***************************************************************************)
(* C10: JSRR BaseR sets PC to the value BaseR held before the step and     *)
(* R7 = p + 1, also when BaseR is R7.                                      *)
(***************************************************************************)
C10_JsrrJumpsToOldBase ==
    (steps > 0 /\ LastTag = "JSRR") =>
        /\ fault = "none"
        /\ pc = last.pre.registers[FieldSR1]
        /\ registers[7] = IncrementedPc

C10_Witness ==
    /\ Returned
    /\ LastTag = "JSRR"
    /\ FieldSR1 = 7
    /\ pc = last.pre.registers[7]
    /\ registers[7] = IncrementedPc
    /\ pc # registers[7]

(***************************************************************************)
(* C11: LDI reads memory twice: the cell at (p + 1 + sext(off, 9)) mod     *)
(* 2^16 gives the address of the second read, whose value goes to DR, and  *)
(* the condition code is set from that value.                              *)
(***************************************************************************)
\* the value the first read of LDI or STI returned: the pointer
PointerValue == cell(last.pre.memory, PcRelativeAddress)

StiPointer ==
    IF PcRelativeAddress = KBSR
    THEN (IF Len(last.pre.stdin) > 0 THEN 32768 ELSE 0)
    ELSE cell(last.pre.memory, PcRelativeAddress)

\* the cells that differ between the memory before and after the last step
ChangedCells ==
    {a \in (DOMAIN memory) \cup (DOMAIN last.pre.memory) :
        cell(memory, a) # cell(last.pre.memory, a)}

StiPlainPointer == PcRelativeAddress \notin {KBDR, DSR, DDR, MCR}

FieldOff6 == last.word % 64

BaseOffsetAddress == (last.pre.registers[FieldSR1] + Signed(FieldOff6, 6)) % 65536

C13_StrStoresSrAtBasePlusOffset ==
    /\ (Returned /\ LastTag = "STR") =>
          /\ cell(memory, BaseOffsetAddress) = last.pre.registers[FieldDR]
          /\ registers = last.pre.registers
    /\ (Returned /\ LastTag = "LDR" /\ BaseOffsetAddress \notin MappedRegisters) =>
          registers[FieldDR] = cell(last.pre.memory, BaseOffsetAddress)

(***************************************************************************)
(* C14: TRAP HALT sets running to false, and the run loop                  *)
(* while running { process } executes no instruction once running is       *)
(* false.                                                                  *)
(***************************************************************************)
\* the last step executed TRAP with vector 0x25
LastWasHalt == steps > 0 /\ fault = "none" /\ LastTag = "TRAP" /\ last.word % 256 = 37

C14_HaltStopsTheLoop ==
    /\ [](LastWasHalt => ~running)
    /\ [][~running =>
            UNCHANGED <<pc, registers, memory, condition, running, fault, io_log, last,
                        steps>>]_vars

\* HALT was the first instruction and the loop had iterations left
C14_Witness == LastWasHalt /\ ~running /\ steps = 1 /\ steps < MaxRunSteps /\ pc = 12289

C16_BadTrapVectorIsFatal ==
    (steps > 0 /\ LastTag = "TRAP" /\ last.word % 256 \notin 32 .. 37) => fault # "none"

C18_SignExtendKeepsTheValue ==
    (call.fn = "sign_extend" /\ call.returned) =>
        /\ call.result \in 0 .. 65535
        /\ Signed(call.result, 16) = Signed(call.args[1], call.args[2])

\* the negative number of the test: 0b10101 of 5 bits is 0b1111_1111_1111_0101
C18_Witness ==
    /\ call.fn = "sign_extend"
    /\ call.returned
    /\ call.args = <<21, 5>>
    /\ call.result = 65525

(***************************************************************************)
(* C19: Instruction::decode is total on register fields: for every 16-bit  *)
(* word every register operand of the decoded instruction is one of        *)
(* R0..R7, and decode never fails with 'bad register'.                     *)
(***************************************************************************)
C19_DecodeRegistersAreValid ==
    (call.fn = "decode" /\ call.returned) =>
        /\ call.result.fault # "bad register"
        /\ call.result.r0 \in 0 .. 7
        /\ call.result.r1 \in 0 .. 7
        /\ call.result.r2 \in 0 .. 7

\* 0b0001_111_111_0_00_111: ADD R7, R7, R7
C19_Witness ==
    /\ call.fn = "decode"
    /\ call.returned
    /\ call.args = <<8135>>
    /\ call.result.tag = "ADD"
    /\ call.result.r0 = 7
    /\ call.result.r1 = 7
    /\ call.result.r2 = 7

(***************************************************************************)
(* C20: the decoder picks the shape from the flag bit.  Opcode 0001 and    *)
(* 0101 decode to the immediate variant iff bit 5 is set, its immediate    *)
(* being the field of bits 4..0, and to the register variant otherwise,    *)
(* its SR2 being bits 2..0; opcode 0100 decodes to JSR with the offset of  *)
(* bits 10..0 iff bit 11 is set and to JSRR with BaseR of bits 8..6        *)
(* otherwise.                                                              *)
(***************************************************************************)
DecodedWord == call.args[1]

C20_DecoderPicksShapeFromFlag ==
    (call.fn = "decode" /\ call.returned) =>
        /\ (DecodedWord \div 4096 \in {1, 5} /\ (DecodedWord \div 32) % 2 = 1) =>
              /\ call.result.tag = (IF DecodedWord \div 4096 = 1 THEN "ADDIMM" ELSE "ANDIMM")
              /\ call.result.value % 32 = DecodedWord % 32
              /\ Signed(call.result.value, 16) = Signed(DecodedWord % 32, 5)
              /\ call.result.r0 = (DecodedWord \div 512) % 8
              /\ call.result.r1 = (DecodedWord \div 64) % 8
        /\ (DecodedWord \div 4096 \in {1, 5} /\ (DecodedWord \div 32) % 2 = 0) =>
              /\ call.result.tag = (IF DecodedWord \div 4096 = 1 THEN "ADD" ELSE "AND")
              /\ call.result.r0 = (DecodedWord \div 512) % 8
              /\ call.result.r1 = (DecodedWord \div 64) % 8
              /\ call.result.r2 = DecodedWord % 8
        /\ (DecodedWord \div 4096 = 4 /\ (DecodedWord \div 2048) % 2 = 1) =>
              /\ call.result.tag = "JSR"
              /\ call.result.value = DecodedWord % 2048
        /\ (DecodedWord \div 4096 = 4 /\ (DecodedWord \div 2048) % 2 = 0) =>
              /\ call.result.tag = "JSRR"
              /\ call.result.r0 = (DecodedWord \div 64) % 8

\* 0b0001_010_001_1_00001 of the test: ADDIMM(R2, R1, 1)
C20_Witness ==
    /\ call.fn = "decode"
    /\ call.returned
    /\ DecodedWord = 5217
    /\ call.result.tag = "ADDIMM"
    /\ call.result.r0 = 2
    /\ call.result.r1 = 1
    /\ call.result.value = 1

(***************************************************************************)
(* C21: every address 0x0000..0xFFFF is valid for the memory: a load from  *)
(* or a store to address 0xFFFF completes without failure, and a load from *)
(* the untouched cell 0xFFFF yields 0 and sets the condition code to Z.    *)
(***************************************************************************)
C21_EveryAddressIsValid ==
    (steps > 0 /\ LastTag \in {"LDR", "STR"} /\ BaseOffsetAddress = 65535) =>
        /\ fault = "none"
        /\ LastTag = "LDR" => (registers[FieldDR] = 0 /\ condition = "Z")

(***************************************************************************)
(* C22: a memory read of DSR (0xFE04) always completes and returns 0x8000. *)
(***************************************************************************)
C22_DsrReadsReady ==
    (call.fn = "Memory::read" /\ call.args = <<DSR>>) =>
        (call.returned /\ fault = "none" /\ call.result = 32768)

(***************************************************************************)
(* C23: a store (ST, STI, STR) that writes a value with bit 15 = 0 to MCR  *)
(* (0xFFFE) clears running, so that the run loop stops after that          *)
(* instruction.                                                            *)
(***************************************************************************)
\* the last step wrote a value with bit 15 clear to MCR
ClearedMcr ==
    \E k \in DOMAIN io_log :
        /\ io_log[k][1] = "write"
        /\ io_log[k][2] = MCR
        /\ io_log[k][3] < 32768

C23_McrWriteStopsTheMachine ==
    (Returned /\ LastTag \in {"ST", "STI", "STR"} /\ ClearedMcr) => ~running

(***************************************************************************)
(* C24: a memory read of KBDR consumes one byte of stdin and returns it,   *)
(* zero-extended, only if the most recent read of KBSR returned 0x8000; in *)
(* every other state it returns 0 and consumes nothing.                    *)
(***************************************************************************)
\* the reads of KBSR among the calls of t
KbsrReads(t) == {k \in DOMAIN t : t[k][1] = "read" /\ t[k][2] = KBSR}

\* the value the most recent read of KBSR in t returned; -1 if there is none
LastKbsrValue(t) ==
    IF KbsrReads(t) = {} THEN -1
    ELSE t[CHOOSE k \in KbsrReads(t) : \A j \in KbsrReads(t) : j <= k][3]

\* this step is a call memory.read(KBDR) that returns
KbdrReadReturns ==
    /\ steps' = steps + 1
    /\ call'.fn = "Memory::read"
    /\ call'.args = <<KBDR>>
    /\ call'.returned

C24_KbdrConsumesOnlyAfterReady ==
    [][KbdrReadReturns =>
          IF LastKbsrValue(trace) = 32768
          THEN \/ (stdin' = stdin /\ call'.result = 0)
               \/ (stdin # <<>> /\ stdin' = Tail(stdin) /\ call'.result = Head(stdin))
          ELSE stdin' = stdin /\ call'.result = 0]_vars

(***************************************************************************)
(* C25: every memory read of KBSR polls the keyboard and latches the       *)
(* status, whoever issues it: a load instruction (LD, LDI, LDR), the       *)
(* instruction fetch and the read command of the debugger all go through   *)
(* the same memory-read operation, with the same side effects.  Stated for *)
(* the LD of process.rs: a LD whose address is KBSR leaves the register,   *)
(* the memory and stdin as state.read_memory(KBSR) does.                   *)
(***************************************************************************)
\* the state the last step started from, its instruction fetched
PreState ==
    [pc |-> last.pre.pc, registers |-> last.pre.registers, memory |-> last.pre.memory,
     condition |-> last.pre.condition, running |-> last.pre.running,
     stdin |-> last.pre.stdin, fault |-> "none", io_log |-> <<>>, overflow_checks |-> TRUE]

C25_KbsrReadsAllPoll ==
    (Returned /\ LastTag = "LD" /\ PcRelativeAddress = KBSR) =>
        \E r \in {read_memory(PreState, KBSR)} :
            /\ registers[FieldDR] = r.value
            /\ \A a \in 0 .. 65535 : cell(memory, a) = cell(r.s.memory, a)
            /\ stdin = r.s.stdin

(***************************************************************************)
(* C26: normal execution never blocks on I/O outside GETC and IN: in every *)
(* reachable state a load or store, a read of KBSR or KBDR included,       *)
(* completes without waiting for a byte of stdin that is not there yet.    *)
(***************************************************************************)
C26_LoadsNeverBlock ==
    fault = "none" =>
        \A address \in MemoryAddresses : Memory_read(State(TRUE), address).s.fault # "blocked"

(***************************************************************************)
(* Vocabulary of the debugger properties.                                  *)
(***************************************************************************)
\* the debugger waits for a line of the client
IsPaused == debugger.at = "inner" /\ fault = "none" /\ Paused(debugger, State(TRUE))

\* the same, of the state this step leads to
IsPausedNext ==
    debugger'.at = "inner" /\ fault' = "none" /\ Paused(debugger', [running |-> running'])

\* this step is the top of an iteration of the outer loop
IterationStarts == debugger.at = "outer" /\ debugger'.at = "inner"

\* this step executes an instruction
InstructionExecutes == steps' = steps + 1

\* this step reads a line of the client
LineIsRead == debugger'.commands = debugger.commands + 1

LastLine == call.args[1]

(***************************************************************************)
(* C27: the break rule of the debugger.  With no breakpoint set the        *)
(* debugger pauses for commands before every instruction; with a           *)
(* breakpoint B set it executes instructions without pausing while PC # B, *)
(* and on the first iteration with PC = B it clears the breakpoint and     *)
(* pauses (break-address 0x3002 then continue pauses exactly when          *)
(* PC = 0x3002).                                                           *)
(***************************************************************************)
C27_BreakRule ==
    /\ [][IterationStarts =>
             /\ debugger.break_address = NoBreakAddress =>
                   (IsPausedNext /\ debugger'.break_address = NoBreakAddress)
             /\ debugger.break_address \notin {NoBreakAddress, pc} =>
                   (~IsPausedNext /\ debugger'.break_address = debugger.break_address)
             /\ debugger.break_address = pc =>
                   (IsPausedNext /\ debugger'.break_address = NoBreakAddress)]_vars
    /\ [][InstructionExecutes => ~IsPaused]_vars

\* break-address 0x3002, then continue: two instructions later the debugger
\* waits at PC = 0x3002, the breakpoint cleared, no further line read
C27_Witness ==
    /\ IsPaused
    /\ pc = 12290
    /\ steps = 2
    /\ debugger.commands = 2
    /\ debugger.break_address = NoBreakAddress
    /\ LastLine = Line("continue", NoBreakAddress)
    /\ call.result = <<"PC", 12288>>

(***************************************************************************)
(* C28: continue-mode lasts for one executed instruction: debug_continue   *)
(* is false every time should_break is evaluated, so that after continue   *)
(* with no breakpoint set exactly one instruction executes before the      *)
(* debugger pauses again.                                                  *)
(***************************************************************************)
C28_ContinueLastsOneInstruction ==
    /\ [](debugger.at = "outer" => ~debugger.debug_continue)
    /\ [][InstructionExecutes => ~debugger'.debug_continue]_vars
    /\ [][(IterationStarts /\ steps > 0 /\ last.pre.running
            /\ debugger.break_address = NoBreakAddress) => IsPausedNext]_vars

\* c with no breakpoint set: one instruction later the debugger waits again
C28_Witness ==
    /\ IsPaused
    /\ steps = 1
    /\ pc = 12289
    /\ debugger.commands = 1
    /\ LastLine = Line("c", NoBreakAddress)
    /\ debugger.break_address = NoBreakAddress
    /\ ~debugger.debug_continue

(***************************************************************************)
(* C29: once running is false in debugger mode (by the exit command or by  *)
(* a HALT executed during a step) the debugger reads no further line and   *)
(* its outer loop terminates: the step that follows the command loop is    *)
(* made if exit left it pending - unless that instruction waits for a key  *)
(* or panics - and the next test of the outer loop returns.                *)
(***************************************************************************)
\* the instruction at PC waits for a byte of stdin
WaitsForKey == process(State(TRUE)).s.fault = "blocked"

OtherLines ==
    {l \in DebuggerLines : l.verb \notin {"c", "continue", "exit", "read", "<not an array>"}}
        \cup {Line("read", NoBreakAddress)}

C30_OtherCommandsOnlyRespond ==
    [][(LineIsRead /\ call'.args[1] \in OtherLines) =>
          /\ fault' = "none"
          /\ debugger'.responses = debugger.responses + 1
          /\ UNCHANGED <<pc, registers, condition, running, steps>>
          /\ IsPausedNext]_vars

(***************************************************************************)
(* C31: the debugger accepts the lines f and flags and answers them with   *)
(* the debug formatting of the current condition code; they are not        *)
(* reported as unknown commands.                                           *)
(***************************************************************************)
C31_FlagsCommandAnswersCondition ==
    [][(LineIsRead /\ call'.args[1] \in {Line("f", NoBreakAddress), Line("flags", NoBreakAddress)})
          => call'.result = <<"condition", condition>>]_vars

(***************************************************************************)
(* C32: image loading.  The byte stream is read as big-endian 16-bit       *)
(* words; the first word w0 becomes the initial PC and word i (i >= 1) is  *)
(* stored at address w0 + i - 1, all other memory unchanged; the bytes     *)
(* 30 00 F0 25 give PC = 0x3000 and mem[0x3000] = 0xF025, and one step     *)
(* then halts.                                                             *)
(***************************************************************************)
LoadedBytes == call.args[1]

\* the i-th 16-bit word of the byte stream, i from 0, high byte first
BigEndianWord(bytes, i) == bytes[2 * i + 1] * 256 + bytes[2 * i + 2]

\* the number of whole words of the byte stream
WordCount(bytes) == Len(bytes) \div 2

\* the word the image puts at address a, if it puts one there
ImageWordAt(bytes, a) ==
    LET w0 == BigEndianWord(bytes, 0)
        placed == {i \in 1 .. (WordCount(bytes) - 1) : w0 + i - 1 = a} IN
    IF placed = {} THEN cell(Memory_new, a)
    ELSE BigEndianWord(bytes, CHOOSE i \in placed : TRUE)

\* the cells that hold a value other than 0, and the cells of the image
WrittenCells ==
    (DOMAIN memory) \cup (DOMAIN Memory_new)
        \cup {BigEndianWord(LoadedBytes, 0) + i - 1 : i \in 1 .. (WordCount(LoadedBytes) - 1)}

C33_OddImageIsRejected ==
    (call.fn \in {"load_file", "from_bytes"} /\ call.returned /\ Len(LoadedBytes) % 2 = 1) =>
        /\ call.fn = "load_file" => (call.result = "Err" /\ steps = 0)
        /\ call.fn = "from_bytes" => call.result.result = "Err"

(***************************************************************************)
(* C34: Config::with returns a configuration error whenever the arguments  *)
(* after the program name hold no path of a program image (no argument at  *)
(* all, or only --debug); it returns Ok only when a path is present, and   *)
(* filename is then that path.                                             *)
(***************************************************************************)
\* the arguments after the program name that are not --debug
PathArguments ==
    LET args == call.args[1] IN
    {k \in 2 .. Len(args) : args[k] # "--debug"}

C34_ConfigNeedsAPath ==
    (call.fn = "Config::with" /\ call.returned) =>
        IF PathArguments = {}
        THEN call.result.result = "Err"
        ELSE /\ call.result.result = "Ok"
             /\ \E k \in PathArguments : call.result.config.filename = call.args[1][k]

(***************************************************************************)
(* C35: each time the command loop of the debugger exits - continue was    *)
(* received, should_break is false, or exit cleared running - exactly one  *)
(* executor step is performed before the running flag is tested again: the *)
(* loop is left only by that step, the step executes the word at PC once,  *)
(* no step is made anywhere else, and the test of running makes none.      *)
(***************************************************************************)
\* the command loop is left
CommandLoopExits == debugger.at = "inner" /\ debugger'.at # "inner"

\* the outer loop tests state.running
RunningIsTested == debugger.at = "outer" /\ debugger' # debugger

C35_OneStepAfterTheCommandLoop ==
    /\ [][CommandLoopExits =>
             /\ ~Paused(debugger, State(TRUE))
             /\ debugger.debug_continue \/ ~debugger.should_break \/ ~running
             /\ debugger'.at = "outer"
             /\ steps' = steps + 1
             /\ last'.pre.pc = pc
             /\ last'.word = read_memory(State(TRUE), pc).value]_vars
    /\ [][InstructionExecutes => CommandLoopExits]_vars
    /\ [][RunningIsTested => UNCHANGED <<steps, pc, registers, condition, running, last>>]_vars

\* exit as the first line: running is false and the ADD at 0x3000 has been
\* executed all the same, before the outer loop tests running
C35_Witness ==
    /\ debugger.at = "outer"
    /\ ~running
    /\ steps = 1
    /\ ~last.pre.running
    /\ last.pre.pc = 12288
    /\ last.word = 4714
    /\ pc = 12289
    /\ LastLine = Line("exit", NoBreakAddress)

(***************************************************************************)
(* C36: the text of disassemble agrees with the instruction decoder on the *)
(* operand fields of every instruction word: the registers shown are the   *)
(* registers decoded, the JMP base register shown is bits 8..6 (a value in *)
(* 0..7) and the JSR offset shown is the 11-bit field of bits 10..0.       *)
(***************************************************************************)
\* the word disassemble was called on, and what the decoder makes of it
DisassembledWord == call.args[1]

Decoded == decode(DisassembledWord)

C36_DisassembleAgreesWithDecode ==
    (call.fn = "disassemble" /\ call.returned) =>
        /\ Decoded.tag = "JMP" =>
              /\ call.result[1] \in 0 .. 7
              /\ call.result[1] = Decoded.r0
              /\ call.result[1] = (DisassembledWord \div 64) % 8
        /\ Decoded.tag = "JSR" =>
              /\ call.result[2] = Decoded.value
              /\ call.result[2] = DisassembledWord % 2048
        /\ Decoded.tag = "JSRR" => call.result[2] = Decoded.r0
        /\ Decoded.tag \in {"LD", "ST", "STI", "LEA", "LDI"} =>
              /\ call.result[1] = Decoded.r0
              /\ call.result[2] = Decoded.value
        /\ Decoded.tag \in {"LDR", "STR"} =>
              /\ call.result[1] = Decoded.r0
              /\ call.result[2] = Decoded.r1
              /\ call.result[3] = Decoded.value
        /\ Decoded.tag \in {"NOT", "ADD", "ADDIMM"} =>
              /\ call.result[1] = Decoded.r0
              /\ call.result[2] = Decoded.r1

(***************************************************************************)
(* C37: the d/disassemble command produces a response line for every word  *)
(* at mem[PC], words of opcode 1000 and 1101 and TRAPs of an unrecognized  *)
(* vector included, and never terminates the debug session or the machine. *)
(***************************************************************************)
C37_DisassembleCommandAlwaysAnswers ==
    [][(LineIsRead /\ call'.args[1].verb \in {"d", "disassemble"}) =>
          /\ fault' = "none"
          /\ call'.returned
          /\ Len(call'.result) > 0
          /\ call'.result[1] = "disassemble"
          /\ running' = running]_vars

(***************************************************************************)
(* C38: sign extension applied once or twice has the same effect.  For LDI *)
(* and for ADD and AND with an immediate, whose field the decoder extends  *)
(* and the executor extends again, decode-then-execute uses exactly        *)
(* sext(field, width) for every value of the field:                        *)
(* sign_extend(sign_extend(v, k), k) = sign_extend(v, k).                  *)
(***************************************************************************)
\* sext(field, bits) as a 16-bit word
SextWord(field, bits) == Signed(field, bits) % 65536

\* extending twice gives what extending once gives: the two's-complement
\* value of the field
ExtendedTwice(field, bits) ==
    /\ sign_extend(field, bits) = SextWord(field, bits)
    /\ sign_extend(sign_extend(field, bits), bits) = SextWord(field, bits)

C38_SignExtensionTwice ==
    (call.fn = "execute" /\ call.returned /\ Returned) =>
        /\ LastTag \in {"ADDIMM", "ANDIMM"} =>
              /\ ExtendedTwice(FieldImm5, 5)
              /\ last.instruction.value = SextWord(FieldImm5, 5)
        /\ LastTag = "ADDIMM" =>
              registers[FieldDR] =
                 (last.pre.registers[FieldSR1] + SextWord(FieldImm5, 5)) % 65536
        /\ LastTag = "ANDIMM" =>
              registers[FieldDR] = bitand(last.pre.registers[FieldSR1], SextWord(FieldImm5, 5))
        /\ LastTag = "LDI" =>
              /\ ExtendedTwice(FieldOff9, 9)
              /\ last.instruction.value = SextWord(FieldOff9, 9)
              /\ Len(io_log) > 0
              /\ io_log[1] = <<"read", (last.pre.pc + 1 + SextWord(FieldOff9, 9)) % 65536>>

\* ADD R2, R1, #8 with R1 = 1: the field 01000 has bit 3 set and bit 4
\* clear, and R2 = 9
C38_Witness ==
    /\ call.fn = "execute"
    /\ call.returned
    /\ Returned
    /\ LastTag = "ADDIMM"
    /\ FieldImm5 = 8
    /\ last.pre.registers[1] = 1
    /\ registers[2] = 9

(***************************************************************************)
(* C39: TRAP PUTS terminates.  Starting at address R0 it outputs the low   *)
(* byte of each successive word and stops at the first word equal to 0,    *)
(* for every R0 and memory in which some address from R0 up to 0xFFFF      *)
(* holds 0, and it completes rather than fails when the scan has to pass   *)
(* address 0xFFFF; registers, CC and running are unchanged.                *)
(***************************************************************************)
\* the low bytes of the words from address a up to the first word equal to 0
RECURSIVE StringAt(_, _)
StringAt(mem, a) ==
    IF cell(mem, a) = 0 THEN <<>>
    ELSE <<cell(mem, a) % 256>> \o StringAt(mem, (a + 1) % 65536)

\* the bytes the last step printed
IsPrint(entry) == entry[1] = "print"

PrintedBytes == [k \in 1 .. Len(SelectSeq(io_log, IsPrint)) |-> SelectSeq(io_log, IsPrint)[k][2]]

LastIsPuts == steps > 0 /\ LastTag = "TRAP" /\ last.instruction.trap_vector = "PUTS"

C39_PutsCompletes ==
    LastIsPuts =>
        /\ fault = "none"
        /\ PrintedBytes = StringAt(last.pre.memory, last.pre.registers[0])
        /\ registers = last.pre.registers
        /\ condition = last.pre.condition
        /\ running = last.pre.running

(***************************************************************************)
(* C40: the running flag is monotone.  It starts true and, in every        *)
(* execution of the debugger loop (whose step is the step of the plain run *)
(* loop), once it has become false no instruction, trap or debugger        *)
(* command ever sets it back to true.                                      *)
(***************************************************************************)
C40_RunningIsMonotone ==
    /\ [](debugger.at = "accept" => running)
    /\ []((steps = 0 /\ debugger.commands = 0) => running)
    /\ [][~running => ~running']_vars

\* exit, and then the step that follows the command loop: the ADD wrote its
\* register while running was false, and running is false still
C40_Witness ==
    /\ ~running
    /\ steps > 0
    /\ ~last.pre.running
    /\ registers # last.pre.registers
    /\ fault = "none"

====
